---- MODULE Spec2Model ----
(***************************************************************************)
(* A model of the socialm application: the SQL functions of the Supabase   *)
(* migrations and the React hooks, pages and services that call them.      *)
(* Each part of the application has its own specification (SpecStories,    *)
(* SpecCombine, ...) over its own variables; the other variables stay at   *)
(* their initial values.                                                   *)
(***************************************************************************)
EXTENDS Integers, Sequences, FiniteSets, TLC

NULL == "null"

VARIABLES
    \* stories / story_views tables
    views_count, story_views, anon_calls, rpc_result,
    \* combineAndSortPosts applied to two fetched arrays
    cs_firebasePosts, cs_supabasePosts, cs_result,
    \* the two backends: post documents / rows and the stored image files
    fs_posts, sb_posts, fb_storage, sb_storage, next_call, has_comments_column,
    \* a call of FirebasePostService.createPost
    svc,
    \* the Dashboard composer and a call of handlePost
    postContent, selectedImage, commentsEnabled, isPosting, feedKey, toast, hp,
    \* useUnifiedPosts: the hook instance, its posts, a loadPosts call and a
    \* snapshot callback in flight
    feed, posts, ld, snap,
    \* useEnhancedNotifications: the hook instance, channelsRef.current and
    \* the channels of its making that the Supabase client holds subscribed
    notif, channelsRef, nt_channels,
    \* useGroups: the hook instance (gh) with the channels it holds subscribed
    gh,
    \* the group tables, the notifications table, and the calls of
    \* approve_group_join_request / reject_group_join_request in progress
    groups, group_members, group_join_requests, db_notifications, tx,
    \* useRealtimeNotifications: the hook's state (rn) and the realtime events
    \* on their way to it; the Notifications page's state
    rn, rn_events, page,
    \* the last statement a signed-in session ran on the notifications table
    rls,
    \* the group_messages table; useGroups' groupMessages, the realtime INSERT
    \* events on their way to it, sendGroupMessage's position (sm) and the
    \* INSERT handler's position (eh)
    group_messages, groupMessages, gm_events, sm, eh,
    \* the likes table, the number of the next likes row, and the like toggles in progress
    likes, like_seq, tg,
    \* a story strip (StoriesContainer or UnifiedCommunityFeed): its state (sv),
    \* the browser's localStorage, the handleStoryClick calls in progress (hs),
    \* the story_views INSERT events on their way to it, and the number of
    \* increment_story_views calls issued per signed-in user and story
    sv, local_storage, hs, sv_events, rpc_calls,
    \* the useEnhancedNotifications instances of one user (ns), the message,
    \* friend request, like and comment rows inserted (source_rows), and the
    \* realtime handlers in progress for them (deliveries)
    ns, source_rows, deliveries

storyVars == <<views_count, story_views, anon_calls, rpc_result>>
combineVars == <<cs_firebasePosts, cs_supabasePosts, cs_result>>
backendVars == <<fs_posts, sb_posts, fb_storage, sb_storage, next_call, has_comments_column>>
svcVars == <<svc>>
dashVars == <<postContent, selectedImage, commentsEnabled, isPosting, feedKey, toast, hp>>

feedVars == <<feed, posts, ld, snap>>

notifVars == <<notif, channelsRef, nt_channels>>
ghVars == <<gh>>
groupDbVars == <<groups, group_members, group_join_requests, db_notifications, tx>>
pageVars == <<rn, rn_events, page>>
rlsVars == <<rls>>
msgDbVars == <<group_messages>>
msgHookVars == <<groupMessages, gm_events, sm, eh>>
likeVars == <<likes, like_seq, tg>>
clickVars == <<sv, local_storage, hs, sv_events, rpc_calls>>
sessVars == <<ns, source_rows, deliveries>>

vars == <<storyVars, combineVars, backendVars, svcVars, dashVars, feedVars,
          notifVars, ghVars, groupDbVars, pageVars, rlsVars,
          msgDbVars, msgHookVars,
    likeVars,
    clickVars,
    sessVars>>

\* what the actions of one part leave alone
notStory == <<combineVars, backendVars, svcVars, dashVars, feedVars, notifVars, ghVars, groupDbVars, pageVars, rlsVars, msgDbVars, msgHookVars,
    likeVars,
    clickVars,
    sessVars>>
notCombine == <<storyVars, backendVars, svcVars, dashVars, feedVars, notifVars, ghVars, groupDbVars, pageVars, rlsVars, msgDbVars, msgHookVars,
    likeVars,
    clickVars,
    sessVars>>
notSvc == <<storyVars, combineVars, dashVars, feedVars, notifVars, ghVars, groupDbVars, pageVars, rlsVars, msgDbVars, msgHookVars,
    likeVars,
    clickVars,
    sessVars>>
notDash == <<storyVars, combineVars, svcVars, feedVars, notifVars, ghVars, groupDbVars, pageVars, rlsVars, msgDbVars, msgHookVars,
    likeVars,
    clickVars,
    sessVars>>
notFeed == <<storyVars, combineVars, backendVars, svcVars, dashVars, notifVars, ghVars, groupDbVars, pageVars, rlsVars, msgDbVars, msgHookVars,
    likeVars,
    clickVars,
    sessVars>>
notNotif == <<storyVars, combineVars, backendVars, svcVars, dashVars, feedVars, ghVars, groupDbVars, pageVars, rlsVars, msgDbVars, msgHookVars,
    likeVars,
    clickVars,
    sessVars>>
notGroups == <<storyVars, combineVars, backendVars, svcVars, dashVars, feedVars, notifVars, groupDbVars, pageVars, rlsVars, msgDbVars,
    likeVars,
    clickVars,
    sessVars>>
notGroupDb == <<storyVars, combineVars, backendVars, svcVars, dashVars, feedVars, notifVars, ghVars, pageVars, rlsVars, msgDbVars, msgHookVars,
    likeVars,
    clickVars,
    sessVars>>
notPage == <<storyVars, combineVars, backendVars, svcVars, dashVars, feedVars, notifVars, ghVars,
            groups, group_members, group_join_requests, tx, rlsVars, msgDbVars, msgHookVars,
    likeVars,
    clickVars,
    sessVars>>
notMsg == <<storyVars, combineVars, backendVars, svcVars, dashVars, feedVars, notifVars, ghVars,
           groupDbVars, pageVars, rlsVars,
    likeVars,
    clickVars,
    sessVars>>
notRls == <<storyVars, combineVars, backendVars, svcVars, dashVars, feedVars, notifVars, ghVars,
           groups, group_members, group_join_requests, tx, pageVars, msgDbVars, msgHookVars,
    likeVars,
    clickVars,
    sessVars>>
notSess == <<storyVars, combineVars, backendVars, svcVars, dashVars, feedVars, notifVars, ghVars,
            groups, group_members, group_join_requests, tx, pageVars, rlsVars, msgDbVars,
            msgHookVars, likeVars, clickVars>>
notClicks == <<combineVars, backendVars, svcVars, dashVars, feedVars, notifVars, ghVars,
              groupDbVars, pageVars, rlsVars, msgDbVars, msgHookVars, likeVars,
    sessVars>>
notLikes == <<storyVars, combineVars, backendVars, svcVars, dashVars, feedVars, notifVars, ghVars,
             groupDbVars, pageVars, rlsVars, msgDbVars, msgHookVars,
    clickVars,
    sessVars>>

(***************************************************************************)
(* Story views: stories.views_count and the story_views join table.        *)
(***************************************************************************)
MaxViews == 4

Stories == {"s1", "s2"}
StoryIds == Stories \cup {"s_missing"}
Viewers == {"u1", "u2"}

StoryInit ==
    /\ views_count = [s \in Stories |-> 0]
    /\ story_views = {}
    /\ anon_calls = [s \in Stories |-> 0]
    /\ rpc_result = [status |-> "none", value |-> 0]

\* INSERT ... ON CONFLICT (story_id, viewer_id) DO NOTHING
InsertStoryView(rows, story_uuid, viewer_uuid) ==
    rows \cup {<<story_uuid, viewer_uuid>>}

\* UPDATE stories SET views_count = views_count + 1 WHERE id = story_uuid
UpdateViewsCount(counts, story_uuid) ==
    [counts EXCEPT ![story_uuid] = @ + 1]

\* increment_story_views(story_uuid, viewer_uuid DEFAULT NULL)
increment_story_views(story_uuid, viewer_uuid) ==
    IF story_uuid \in Stories
    THEN /\ views_count[story_uuid] < MaxViews
         /\ story_views' = IF viewer_uuid # NULL
                              THEN InsertStoryView(story_views, story_uuid, viewer_uuid)
                              ELSE story_views
         /\ views_count' = UpdateViewsCount(views_count, story_uuid)
         /\ anon_calls' = IF viewer_uuid = NULL
                             THEN [anon_calls EXCEPT ![story_uuid] = @ + 1]
                             ELSE anon_calls
         /\ rpc_result' = [status |-> "ok", value |-> views_count'[story_uuid]]
    ELSE \* no stories row: the UPDATE matches nothing and COALESCE gives 0; with
         \* a viewer the INSERT violates the foreign key and the call fails
         /\ rpc_result' = [status |-> IF viewer_uuid = NULL THEN "ok" ELSE "error",
                           value |-> 0]
         /\ UNCHANGED <<views_count, story_views, anon_calls>>

IncrementStoryViews ==
    /\ \E s \in StoryIds, v \in Viewers \cup {NULL} : increment_story_views(s, v)
    /\ UNCHANGED notStory

StoryNext == IncrementStoryViews

ViewersOf(s) == {r \in story_views : r[1] = s}

\* C1: with only non-null viewers, views_count of every story equals the
\* number of distinct viewers recorded for it in story_views: a repeated call
\* by a viewer who already has a row does not increase views_count.
C1_ViewsCountIsDistinctViewers ==
    \A s \in Stories :
        anon_calls[s] = 0 => views_count[s] = Cardinality(ViewersOf(s))

(***************************************************************************)
(* combineAndSortPosts: the merge of the Firestore and the Supabase feed.  *)
(* A creation time is kept at the precision of its backend: whole          *)
(* milliseconds (ms) and the fraction below a millisecond (sub).           *)
(***************************************************************************)
MaxMs == 1
MaxSub == 1
MaxLen == 2

FirebaseIds == {"f1", "f2"}
SupabaseIds == {"p1", "p2"}

Times == [ms : 0..MaxMs, sub : 0..MaxSub]

FirebasePostRows == [id : FirebaseIds, source : {"firebase"}, created_at : Times]
SupabasePostRows == [id : SupabaseIds, source : {"supabase"}, created_at : Times]

\* Timestamp.toDate().getTime(): a Firestore Timestamp (seconds, nanoseconds)
\* becomes a Date, which holds whole milliseconds
FirebaseGetTime(post) == post.created_at.ms

\* new Date(created_at).getTime(): the timestamptz string carries microseconds,
\* the Date keeps the first three fraction digits
SupabaseGetTime(post) == post.created_at.ms

GetTime(post) ==
    IF post.source = "firebase" THEN FirebaseGetTime(post) ELSE SupabaseGetTime(post)

\* the comparator with its operands exchanged: oldest first
ComparePostsAscending(a, b) == GetTime(a) - GetTime(b)

\* the comparator of allPosts.sort: timeB - timeA
ComparePosts(a, b) == GetTime(b) - GetTime(a)

\* Array.prototype.sort is stable: x goes behind every element it does not
\* strictly precede
RECURSIVE InsertSorted(_, _)
InsertSorted(x, sorted) ==
    IF sorted = <<>> THEN <<x>>
    ELSE IF ComparePosts(Head(sorted), x) <= 0
         THEN <<Head(sorted)>> \o InsertSorted(x, Tail(sorted))
         ELSE <<x>> \o sorted

RECURSIVE SortPosts(_)
SortPosts(s) ==
    IF s = <<>> THEN <<>>
    ELSE InsertSorted(s[Len(s)], SortPosts(SubSeq(s, 1, Len(s) - 1)))

combineAndSortPosts(firebasePosts, supabasePosts) ==
    SortPosts(firebasePosts \o supabasePosts)

\* the exact creation time, for comparing two rows
Later(t1, t2) == t1.ms > t2.ms \/ (t1.ms = t2.ms /\ t1.sub > t2.sub)

\* a query result: distinct ids, ORDER BY created_at DESC
IsQueryResult(s) ==
    /\ \A i, j \in 1..Len(s) : i # j => s[i].id # s[j].id
    /\ \A i, j \in 1..Len(s) : i < j => ~Later(s[j].created_at, s[i].created_at)

SeqsUpTo(S, n) == UNION {[1..k -> S] : k \in 0..n}

CombineInit ==
    /\ cs_firebasePosts \in {s \in SeqsUpTo(FirebasePostRows, MaxLen) : IsQueryResult(s)}
    /\ cs_supabasePosts \in {s \in SeqsUpTo(SupabasePostRows, MaxLen) : IsQueryResult(s)}
    /\ cs_result = [done |-> FALSE, posts |-> <<>>]

Combine ==
    /\ ~cs_result.done
    /\ cs_result' = [done |-> TRUE,
                     posts |-> combineAndSortPosts(cs_firebasePosts, cs_supabasePosts)]
    /\ UNCHANGED <<cs_firebasePosts, cs_supabasePosts>>
    /\ UNCHANGED notCombine

CombineNext == Combine

Count(x, s) == Cardinality({i \in 1..Len(s) : s[i] = x})

IsPermutation(s, t) ==
    /\ Len(s) = Len(t)
    /\ \A i \in 1..Len(s) : Count(s[i], s) = Count(s[i], t)

MaxCalls == 2

NoFile == [bucket |-> "none", n |-> 0]
NoId == [kind |-> "none", n |-> 0]

\* posts/${user.id}/${Date.now()}-${imageFile.name} in Firebase Storage
FirebaseFile(call) == [bucket |-> "firebase", n |-> call]
\* ${user.id}/${Date.now()}-${random}.${fileExt} in the Supabase bucket 'posts'
SupabaseFile(call) == [bucket |-> "supabase", n |-> call]
\* the id addDoc gives a document
FirestoreId(call) == [kind |-> "firestore", n |-> call]
\* the uuid the posts table gives a row
SupabaseId(call) == [kind |-> "uuid", n |-> call]

\* created_at: serverTimestamp() / DEFAULT now(), the server's clock at the
\* insert; the clock moves on from one call to the next
ServerTime(call) == [ms |-> call, sub |-> 0]

\* uploadBytes / storage.upload: the file is kept in the bucket
StoreFile(storage, file) == storage \cup {file}

\* addDoc / insert: the row is added
InsertPost(table, row) == table \cup {row}

\* a compensating delete of the uploaded file
RemoveOnFailure(storage, file) == storage \ {file}

\* what a catch block does to the bucket after a failed insert: nothing, it
\* logs, toasts or rethrows and calls neither deleteObject nor remove
AfterFailedInsert(storage, file) == storage

BackendInit ==
    /\ fs_posts = {}
    /\ sb_posts = {}
    /\ fb_storage = {}
    /\ sb_storage = {}
    /\ next_call = 1
    /\ has_comments_column \in BOOLEAN

(***************************************************************************)
(* FirebasePostService.createPost                                          *)
(***************************************************************************)
SvcIdle ==
    [pc |-> "idle", call |-> 0, hasImage |-> FALSE, fbFile |-> NoFile,
     imageUrl |-> NoFile, sbFile |-> NoFile, supabaseImageUrl |-> NoFile,
     fbThrew |-> FALSE, sbInserts |-> 0, result |-> NoId, error |-> ""]

SvcInit == svc = SvcIdle

\* a catch block that logs the error and returns
FallbackSwallows(hasImage) == "done"

\* the catch block: on to the Supabase path
FallbackPc(hasImage) == IF hasImage THEN "sb_upload" ELSE "sb_insert"

\* createPost(content, imageFile, user) is called
SvcCreatePost ==
    /\ svc.pc \in {"idle", "done", "failed"}
    /\ next_call <= MaxCalls
    /\ \E img \in BOOLEAN :
          svc' = [SvcIdle EXCEPT !.pc = IF img THEN "fb_upload" ELSE "fb_addDoc",
                                 !.call = next_call,
                                 !.hasImage = img]
    /\ next_call' = next_call + 1
    /\ UNCHANGED <<fs_posts, sb_posts, fb_storage, sb_storage, has_comments_column>>
    /\ UNCHANGED notSvc

\* await uploadBytes(imageRef, imageFile)
SvcFbUploadBytes ==
    /\ svc.pc = "fb_upload"
    /\ \E ok \in BOOLEAN :
          IF ok
          THEN /\ fb_storage' = StoreFile(fb_storage, FirebaseFile(svc.call))
               /\ svc' = [svc EXCEPT !.pc = "fb_getUrl", !.fbFile = FirebaseFile(svc.call)]
          ELSE /\ svc' = [svc EXCEPT !.pc = FallbackPc(svc.hasImage), !.fbThrew = TRUE]
               /\ UNCHANGED fb_storage
    /\ UNCHANGED <<fs_posts, sb_posts, sb_storage, next_call, has_comments_column>>
    /\ UNCHANGED notSvc

\* imageUrl = await getDownloadURL(snapshot.ref)
SvcFbGetDownloadURL ==
    /\ svc.pc = "fb_getUrl"
    /\ \E ok \in BOOLEAN :
          IF ok
          THEN svc' = [svc EXCEPT !.pc = "fb_addDoc", !.imageUrl = svc.fbFile]
          ELSE svc' = [svc EXCEPT !.pc = FallbackPc(svc.hasImage), !.fbThrew = TRUE]
    /\ UNCHANGED backendVars
    /\ UNCHANGED notSvc

\* docRef = await addDoc(this.postsCollection, postData); return docRef.id
SvcFbAddDoc ==
    /\ svc.pc = "fb_addDoc"
    /\ \E ok \in BOOLEAN :
          IF ok
          THEN /\ fs_posts' = InsertPost(fs_posts,
                                  [id |-> FirestoreId(svc.call), content |-> "post",
                                   image_url |-> svc.imageUrl,
                                   created_at |-> ServerTime(svc.call)])
               /\ svc' = [svc EXCEPT !.pc = "done", !.result = FirestoreId(svc.call)]
               /\ UNCHANGED fb_storage
          ELSE /\ svc' = [svc EXCEPT !.pc = FallbackPc(svc.hasImage), !.fbThrew = TRUE]
               /\ fb_storage' = AfterFailedInsert(fb_storage, svc.fbFile)
               /\ UNCHANGED fs_posts
    /\ UNCHANGED <<sb_posts, sb_storage, next_call, has_comments_column>>
    /\ UNCHANGED notSvc

\* the fallback's supabase.storage.from('posts').upload(fileName, imageFile);
\* an uploadError leaves supabaseImageUrl null and the insert goes ahead
SvcSbUpload ==
    /\ svc.pc = "sb_upload"
    /\ \E ok \in BOOLEAN :
          IF ok
          THEN /\ sb_storage' = StoreFile(sb_storage, SupabaseFile(svc.call))
               /\ svc' = [svc EXCEPT !.pc = "sb_insert",
                                     !.sbFile = SupabaseFile(svc.call),
                                     !.supabaseImageUrl = SupabaseFile(svc.call)]
          ELSE /\ svc' = [svc EXCEPT !.pc = "sb_insert"]
               /\ UNCHANGED sb_storage
    /\ UNCHANGED <<fs_posts, sb_posts, fb_storage, next_call, has_comments_column>>
    /\ UNCHANGED notSvc

\* the fallback's supabase.from('posts').insert(...).select().single();
\* an error is rethrown as Error('Failed to create post')
SvcSbInsert ==
    /\ svc.pc = "sb_insert"
    /\ \E ok \in BOOLEAN :
          IF ok
          THEN /\ sb_posts' = InsertPost(sb_posts,
                                  [id |-> SupabaseId(svc.call), content |-> "post",
                                   image_url |-> svc.supabaseImageUrl,
                                   created_at |-> ServerTime(svc.call)])
               /\ svc' = [svc EXCEPT !.pc = "done", !.result = SupabaseId(svc.call),
                                     !.sbInserts = @ + 1]
               /\ UNCHANGED sb_storage
          ELSE /\ svc' = [svc EXCEPT !.pc = "failed", !.error = "Failed to create post",
                                     !.sbInserts = @ + 1]
               /\ sb_storage' = AfterFailedInsert(sb_storage, svc.sbFile)
               /\ UNCHANGED sb_posts
    /\ UNCHANGED <<fs_posts, fb_storage, next_call, has_comments_column>>
    /\ UNCHANGED notSvc

(***************************************************************************)
(* Dashboard: the composer and handlePost                                  *)
(***************************************************************************)
Contents == {"", " ", "hi"}

\* postContent.trim()
Trim(text) == IF text = " " THEN "" ELSE text

NoImage == "none"
ImageFile == "photo.png"

HpIdle ==
    [pc |-> "idle", call |-> 0, content |-> "", image |-> NoImage,
     commentsEnabled |-> TRUE, file |-> NoFile, imageUrl |-> NoFile,
     inserts |-> 0, error1 |-> "", outcome |-> ""]

DashInit ==
    /\ postContent = ""
    /\ selectedImage = NoImage
    /\ commentsEnabled = TRUE
    /\ isPosting = FALSE
    /\ feedKey = 0
    /\ toast = ""
    /\ hp = HpIdle

\* the Textarea's onChange (disabled while posting)
TypeContent ==
    /\ ~isPosting
    /\ \E text \in Contents : postContent' = text
    /\ UNCHANGED <<selectedImage, commentsEnabled, isPosting, feedKey, toast, hp>>
    /\ UNCHANGED backendVars
    /\ UNCHANGED notDash

\* handleImageSelect (its button is disabled while posting): a file that is
\* no image or is larger than 5MB is refused with a toast
HandleImageSelect ==
    /\ ~isPosting
    /\ \E valid \in BOOLEAN :
          IF valid
          THEN selectedImage' = ImageFile /\ UNCHANGED toast
          ELSE toast' = "invalid file" /\ UNCHANGED selectedImage
    /\ UNCHANGED <<postContent, commentsEnabled, isPosting, feedKey, hp>>
    /\ UNCHANGED backendVars
    /\ UNCHANGED notDash

\* removeImage from the preview's button, which posting does not disable
RemoveImage ==
    /\ selectedImage # NoImage
    /\ selectedImage' = NoImage
    /\ UNCHANGED <<postContent, commentsEnabled, isPosting, feedKey, toast, hp>>
    /\ UNCHANGED backendVars
    /\ UNCHANGED notDash

\* the comments Switch (disabled while posting)
ToggleComments ==
    /\ ~isPosting
    /\ commentsEnabled' = ~commentsEnabled
    /\ UNCHANGED <<postContent, selectedImage, isPosting, feedKey, toast, hp>>
    /\ UNCHANGED backendVars
    /\ UNCHANGED notDash

\* if ((!postContent.trim() && !selectedImage) || isPosting) return;
\* setIsPosting(true)
HandlePostStart ==
    /\ ~((Trim(postContent) = "" /\ selectedImage = NoImage) \/ isPosting)
    /\ next_call <= MaxCalls
    /\ isPosting' = TRUE
    /\ hp' = [HpIdle EXCEPT !.pc = "getUser", !.call = next_call,
                            !.content = Trim(postContent),
                            !.image = selectedImage,
                            !.commentsEnabled = commentsEnabled]
    /\ next_call' = next_call + 1
    /\ UNCHANGED <<postContent, selectedImage, commentsEnabled, feedKey, toast>>
    /\ UNCHANGED <<fs_posts, sb_posts, fb_storage, sb_storage, has_comments_column>>
    /\ UNCHANGED notDash

\* the catch and finally blocks: the error toast, setIsPosting(false)
HpFail ==
    /\ toast' = "Failed to create post"
    /\ isPosting' = FALSE
    /\ UNCHANGED <<postContent, selectedImage, commentsEnabled, feedKey>>

\* after the insert: setPostContent(''), setCommentsEnabled(true),
\* removeImage(), setFeedKey(prev => prev + 1), the success toast, and the
\* finally block
HpSucceed ==
    /\ postContent' = ""
    /\ commentsEnabled' = TRUE
    /\ selectedImage' = NoImage
    /\ feedKey' = feedKey + 1
    /\ toast' = "Success"
    /\ isPosting' = FALSE

\* const { data: { user } } = await supabase.auth.getUser()
HpGetUser ==
    /\ hp.pc = "getUser"
    /\ \E got \in {"user", "no user", "throws"} :
          CASE got = "user" ->
                 /\ hp' = [hp EXCEPT !.pc = IF hp.image # NoImage THEN "upload" ELSE "insert"]
                 /\ UNCHANGED <<postContent, selectedImage, commentsEnabled, isPosting,
                                feedKey, toast>>
            [] got = "no user" ->
                 /\ hp' = [hp EXCEPT !.pc = "idle", !.outcome = "returned"]
                 /\ toast' = "You must be logged in to post"
                 /\ isPosting' = FALSE
                 /\ UNCHANGED <<postContent, selectedImage, commentsEnabled, feedKey>>
            [] got = "throws" ->
                 /\ hp' = [hp EXCEPT !.pc = "idle", !.outcome = "failed"]
                 /\ HpFail
    /\ UNCHANGED backendVars
    /\ UNCHANGED notDash

\* supabase.storage.from('posts').upload(fileName, selectedImage);
\* if (uploadError) throw uploadError
HpUpload ==
    /\ hp.pc = "upload"
    /\ \E ok \in BOOLEAN :
          IF ok
          THEN /\ sb_storage' = StoreFile(sb_storage, SupabaseFile(hp.call))
               /\ hp' = [hp EXCEPT !.pc = "insert", !.file = SupabaseFile(hp.call),
                                   !.imageUrl = SupabaseFile(hp.call)]
               /\ UNCHANGED <<postContent, selectedImage, commentsEnabled, isPosting,
                              feedKey, toast>>
          ELSE /\ hp' = [hp EXCEPT !.pc = "idle", !.outcome = "failed"]
               /\ HpFail
               /\ UNCHANGED sb_storage
    /\ UNCHANGED <<fs_posts, sb_posts, fb_storage, next_call, has_comments_column>>
    /\ UNCHANGED notDash

\* the errors an insert into posts can report: none, one whose message names
\* the missing comments_enabled column, or any other
InsertErrors(withColumn) ==
    IF withColumn /\ ~has_comments_column
    THEN {"comments_enabled", "other"}
    ELSE {"", "other"}

\* retry on any error at all
RetryAlways(message) == message # ""

\* error.message?.includes('comments_enabled')
ShouldRetry(message) == message = "comments_enabled"

HpRow ==
    [id |-> SupabaseId(hp.call), content |-> hp.content, image_url |-> hp.imageUrl,
     created_at |-> ServerTime(hp.call)]

\* insert({...postData, comments_enabled: commentsEnabled})
HpInsert ==
    /\ hp.pc = "insert"
    /\ \E message \in InsertErrors(TRUE) :
          IF message = ""
          THEN /\ sb_posts' = InsertPost(sb_posts, HpRow)
               /\ hp' = [hp EXCEPT !.pc = "idle", !.outcome = "posted", !.inserts = @ + 1]
               /\ HpSucceed
               /\ UNCHANGED sb_storage
          ELSE IF ShouldRetry(message)
          THEN /\ hp' = [hp EXCEPT !.pc = "retry", !.error1 = message, !.inserts = @ + 1]
               /\ UNCHANGED <<postContent, selectedImage, commentsEnabled, isPosting,
                              feedKey, toast, sb_posts, sb_storage>>
          ELSE /\ hp' = [hp EXCEPT !.pc = "idle", !.outcome = "failed",
                                   !.error1 = message, !.inserts = @ + 1]
               /\ HpFail
               /\ sb_storage' = AfterFailedInsert(sb_storage, hp.file)
               /\ UNCHANGED sb_posts
    /\ UNCHANGED <<fs_posts, fb_storage, next_call, has_comments_column>>
    /\ UNCHANGED notDash

\* the retry: insert(postData); if (fallbackError) throw fallbackError
HpRetryInsert ==
    /\ hp.pc = "retry"
    /\ \E message \in InsertErrors(FALSE) :
          IF message = ""
          THEN /\ sb_posts' = InsertPost(sb_posts, HpRow)
               /\ hp' = [hp EXCEPT !.pc = "idle", !.outcome = "posted", !.inserts = @ + 1]
               /\ HpSucceed
               /\ UNCHANGED sb_storage
          ELSE /\ hp' = [hp EXCEPT !.pc = "idle", !.outcome = "failed", !.inserts = @ + 1]
               /\ HpFail
               /\ sb_storage' = AfterFailedInsert(sb_storage, hp.file)
               /\ UNCHANGED sb_posts
    /\ UNCHANGED <<fs_posts, fb_storage, next_call, has_comments_column>>
    /\ UNCHANGED notDash

PostsNext ==
    \/ SvcCreatePost \/ SvcFbUploadBytes \/ SvcFbGetDownloadURL \/ SvcFbAddDoc
    \/ SvcSbUpload \/ SvcSbInsert
    \/ TypeContent \/ HandleImageSelect \/ RemoveImage \/ ToggleComments
    \/ HandlePostStart \/ HpGetUser \/ HpUpload \/ HpInsert \/ HpRetryInsert

AllPosts == fs_posts \cup sb_posts

\* the post rows a call has written
PostsOfCall(call) == {r \in AllPosts : r.id.n = call}

References(file) == {r \in AllPosts : r.image_url = file}

\* C2: createPost tries Firestore first and inserts into Supabase only after
\* the Firestore path threw; a returned id is that of the one post row the
\* call wrote, in one backend only; when both paths fail the call throws
\* 'Failed to create post' and has written no post row.
C2_DualWriteFallback ==
    /\ svc.sbInserts > 0 => svc.fbThrew
    /\ svc.pc \in {"sb_upload", "sb_insert", "failed"} => svc.fbThrew
    /\ svc.pc = "done" =>
          /\ PostsOfCall(svc.call) = {r \in AllPosts : r.id = svc.result}
          /\ Cardinality(PostsOfCall(svc.call)) = 1
          /\ Cardinality({r \in fs_posts : r.id.n = svc.call}) = 1
                <=> Cardinality({r \in sb_posts : r.id.n = svc.call}) = 0
          /\ svc.result.kind = (IF svc.fbThrew THEN "uuid" ELSE "firestore")
    /\ svc.pc = "failed" =>
          /\ svc.error = "Failed to create post"
          /\ svc.sbInserts = 1
          /\ PostsOfCall(svc.call) = {}

\* the Firestore path threw and the fallback wrote the post to Supabase
C2_Witness ==
    /\ svc.pc = "done"
    /\ svc.hasImage
    /\ svc.fbThrew
    /\ svc.result.kind = "uuid"
    /\ svc.result \in {r.id : r \in sb_posts}

\* the upload was made and the insert after it failed
SvcFirebaseOrphan == svc.fbFile # NoFile /\ svc.fbThrew
SvcSupabaseOrphan == svc.pc = "failed" /\ svc.sbFile # NoFile
HpOrphan == hp.outcome = "failed" /\ hp.file # NoFile

C3_OrphanState ==
    /\ SvcFirebaseOrphan => svc.fbFile \in fb_storage /\ References(svc.fbFile) = {}
    /\ SvcSupabaseOrphan => svc.sbFile \in sb_storage /\ References(svc.sbFile) = {}
    /\ HpOrphan => hp.file \in sb_storage /\ References(hp.file) = {}

C3_NoDelete ==
    /\ fb_storage \subseteq fb_storage'
    /\ sb_storage \subseteq sb_storage'

\* C3: when the image upload succeeded and the insert after it failed, the
\* file is in storage and no post row references it, in handlePost and in
\* createPost; and no step of either removes a file from storage.
C3_UploadedImageOrphaned == []C3_OrphanState /\ [][C3_NoDelete]_vars

\* both handlers have left an uploaded file behind
C3_Witness ==
    /\ HpOrphan
    /\ SvcSupabaseOrphan
    /\ SvcFirebaseOrphan
    /\ hp.file \in sb_storage
    /\ svc.sbFile \in sb_storage

C9_RetryState ==
    /\ hp.inserts <= 2
    /\ hp.inserts = 2 => hp.error1 = "comments_enabled"
    /\ (hp.pc = "idle" /\ hp.error1 = "comments_enabled") => hp.inserts = 2
    /\ (hp.pc = "retry") <=> (hp.inserts = 1 /\ hp.error1 = "comments_enabled" /\ hp.outcome = "")
    /\ hp.outcome = "failed" => PostsOfCall(hp.call) = {}

C9_FailureStep ==
    (hp.pc \in {"insert", "retry"} /\ hp'.outcome = "failed") =>
        /\ postContent' = postContent
        /\ selectedImage' = selectedImage
        /\ sb_posts' = sb_posts
        /\ hp'.pc = "idle"

\* C9: handlePost retries the insert without comments_enabled exactly once,
\* and only when the first error message contains 'comments_enabled'; any
\* other insert error, or a failure of the retry, ends the call with no post
\* created and the composer text and the selected image as they were.
C9_RetryOnlyOnMissingColumn == []C9_RetryState /\ [][C9_FailureStep]_vars

\* the retry was made and failed, the composer still holds text and image
C9_Witness ==
    /\ hp.outcome = "failed"
    /\ hp.inserts = 2
    /\ hp.error1 = "comments_enabled"
    /\ postContent = "hi"
    /\ selectedImage = ImageFile


(***************************************************************************)
(* useUnifiedPosts: loadPosts and the realtime refreshes of the feed       *)
(***************************************************************************)
RECURSIVE OrderByCreatedAtDesc(_)
\* .order('created_at', { ascending: false }) / orderBy('created_at', 'desc')
OrderByCreatedAtDesc(rows) ==
    IF rows = {} THEN <<>>
    ELSE LET first == CHOOSE r \in rows :
                         \A o \in rows : ~Later(o.created_at, r.created_at)
         IN <<first>> \o OrderByCreatedAtDesc(rows \ {first})

\* docs.map(doc => ({ id: doc.id, ...doc.data(), source: 'firebase' }))
FirebaseFeedPost(doc, isPending) ==
    [id |-> doc.id, source |-> "firebase", created_at |-> doc.created_at,
     pending |-> isPending]

\* { ...post, likes, comments, _count, source: 'supabase' }
SupabaseFeedPost(row) ==
    [id |-> row.id, source |-> "supabase", created_at |-> row.created_at,
     pending |-> FALSE]

FirebaseFeed(docs) ==
    LET ordered == OrderByCreatedAtDesc(docs)
    IN [i \in 1..Len(ordered) |-> FirebaseFeedPost(ordered[i], FALSE)]

SupabaseFeed(rows) ==
    LET ordered == OrderByCreatedAtDesc(rows)
    IN [i \in 1..Len(ordered) |-> SupabaseFeedPost(ordered[i])]

\* a document this client has added and the server has not yet acknowledged:
\* the listener delivers it first, its serverTimestamp() still null
PendingDoc ==
    [id |-> FirestoreId(svc.call), content |-> "post", image_url |-> svc.imageUrl,
     created_at |-> ServerTime(svc.call)]

\* created_at.toDate() of a null created_at throws once the comparator runs,
\* which it does for two or more posts
CombineThrows(firebasePosts, supabasePosts) ==
    /\ Len(firebasePosts) + Len(supabasePosts) >= 2
    /\ \E i \in 1..Len(firebasePosts) : firebasePosts[i].pending

\* the new list is put behind the old one
AppendPosts(prev, combinedPosts) == prev \o combinedPosts

\* setPosts(combinedPosts)
SetPosts(prev, combinedPosts) == combinedPosts

FeedUnmounted == [mounted |-> FALSE, currentUser |-> FALSE, listener |-> FALSE,
                  channel |-> FALSE, loading |-> TRUE]
LdIdle == [pc |-> "idle", gotFirebase |-> FALSE, gotSupabase |-> FALSE,
           firebasePosts |-> <<>>, supabasePosts |-> <<>>]
SnapIdle == [pc |-> "idle", firebasePosts |-> <<>>, supabasePosts |-> <<>>]

FeedInit ==
    /\ feed = FeedUnmounted
    /\ posts = <<>>
    /\ ld = LdIdle
    /\ snap = SnapIdle

\* a component calling useUnifiedPosts() mounts: useState([]), useState(true),
\* useState(null)
FeedMount ==
    /\ ~feed.mounted
    /\ feed' = [FeedUnmounted EXCEPT !.mounted = TRUE]
    /\ posts' = <<>>
    /\ UNCHANGED <<ld, snap>>
    /\ UNCHANGED notFeed

\* getCurrentUser resolves; with a profile the effect runs: loadPosts(), the
\* Firestore listener and the 'posts-realtime' channel are set up
FeedGetCurrentUser ==
    /\ feed.mounted
    /\ ~feed.currentUser
    /\ \E found \in BOOLEAN :
          IF found
          THEN /\ feed' = [feed EXCEPT !.currentUser = TRUE, !.listener = TRUE,
                                       !.channel = TRUE, !.loading = TRUE]
               /\ ld' = [LdIdle EXCEPT !.pc = "fetch"]
          ELSE UNCHANGED <<feed, ld>>
    /\ UNCHANGED <<posts, snap>>
    /\ UNCHANGED notFeed

\* loadPosts() again: a postgres_changes event on the channel, or the refresh
\* after createPost, toggleLike or addComment
FeedLoadPosts ==
    /\ feed.mounted
    /\ feed.currentUser
    /\ ld.pc = "idle"
    /\ ld' = [LdIdle EXCEPT !.pc = "fetch"]
    /\ feed' = [feed EXCEPT !.loading = TRUE]
    /\ UNCHANGED <<posts, snap>>
    /\ UNCHANGED notFeed

\* firebasePostService.getPosts(): the documents, or [] on an error
LdGetPosts ==
    /\ ld.pc = "fetch"
    /\ ~ld.gotFirebase
    /\ \E ok \in BOOLEAN :
          ld' = [ld EXCEPT !.gotFirebase = TRUE,
                           !.firebasePosts = IF ok THEN FirebaseFeed(fs_posts) ELSE <<>>]
    /\ UNCHANGED <<feed, posts, snap>>
    /\ UNCHANGED notFeed

\* fetchSupabasePosts(): the rows, or [] on an error
LdFetchSupabasePosts ==
    /\ ld.pc = "fetch"
    /\ ~ld.gotSupabase
    /\ \E ok \in BOOLEAN :
          ld' = [ld EXCEPT !.gotSupabase = TRUE,
                           !.supabasePosts = IF ok THEN SupabaseFeed(sb_posts) ELSE <<>>]
    /\ UNCHANGED <<feed, posts, snap>>
    /\ UNCHANGED notFeed

\* both promises resolved: setPosts(combineAndSortPosts(...)), setLoading(false)
LdSetPosts ==
    /\ ld.pc = "fetch"
    /\ ld.gotFirebase
    /\ ld.gotSupabase
    /\ posts' = SetPosts(posts, combineAndSortPosts(ld.firebasePosts, ld.supabasePosts))
    /\ feed' = [feed EXCEPT !.loading = FALSE]
    /\ ld' = LdIdle
    /\ UNCHANGED snap
    /\ UNCHANGED notFeed

\* the onSnapshot callback is called with the documents of the collection,
\* among them a document of this client that is still being added
SnapshotFires ==
    /\ feed.listener
    /\ snap.pc = "idle"
    /\ \E withPending \in BOOLEAN :
          /\ withPending => svc.pc = "fb_addDoc"
          /\ snap' = [SnapIdle EXCEPT
                        !.pc = "fetch",
                        !.firebasePosts =
                            IF withPending
                            THEN <<FirebaseFeedPost(PendingDoc, TRUE)>> \o FirebaseFeed(fs_posts)
                            ELSE FirebaseFeed(fs_posts)]
    /\ UNCHANGED <<feed, posts, ld>>
    /\ UNCHANGED notFeed

\* fetchSupabasePosts() of the snapshot callback resolves
SnapFetchSupabasePosts ==
    /\ snap.pc = "fetch"
    /\ \E ok \in BOOLEAN :
          snap' = [snap EXCEPT !.pc = "then",
                               !.supabasePosts = IF ok THEN SupabaseFeed(sb_posts) ELSE <<>>]
    /\ UNCHANGED <<feed, posts, ld>>
    /\ UNCHANGED notFeed

\* .then(supabasePosts => setPosts(combineAndSortPosts(firebasePosts, supabasePosts)))
SnapSetPosts ==
    /\ snap.pc = "then"
    /\ posts' = IF CombineThrows(snap.firebasePosts, snap.supabasePosts)
                THEN posts
                ELSE SetPosts(posts, combineAndSortPosts(snap.firebasePosts, snap.supabasePosts))
    /\ snap' = SnapIdle
    /\ UNCHANGED <<feed, ld>>
    /\ UNCHANGED notFeed

\* the effect's cleanup: unsubscribeFirebase(), removeChannel(supabaseChannel);
\* what is still in flight finds no component to update
FeedUnmount ==
    /\ feed.mounted
    /\ feed' = FeedUnmounted
    /\ ld' = LdIdle
    /\ snap' = SnapIdle
    /\ UNCHANGED posts
    /\ UNCHANGED notFeed

FeedNext ==
    \/ SvcCreatePost \/ SvcFbUploadBytes \/ SvcFbGetDownloadURL \/ SvcFbAddDoc
    \/ SvcSbUpload \/ SvcSbInsert
    \/ FeedMount \/ FeedGetCurrentUser \/ FeedLoadPosts
    \/ LdGetPosts \/ LdFetchSupabasePosts \/ LdSetPosts
    \/ SnapshotFires \/ SnapFetchSupabasePosts \/ SnapSetPosts
    \/ FeedUnmount

\* C8: no two entries of posts have the same id.
C8_FeedHasNoDuplicateIds ==
    \A i, j \in 1..Len(posts) : i # j => posts[i].id # posts[j].id

\* the feed shows a Firestore post and a Supabase post after a refresh
C8_Witness ==
    /\ Len(posts) = 2
    /\ \E i, j \in 1..Len(posts) :
          posts[i].source = "firebase" /\ posts[j].source = "supabase"
    /\ ld.pc = "idle"

(***************************************************************************)
(* useEnhancedNotifications: the effect that sets up the realtime          *)
(* subscriptions, its reconnect timer and its cleanup                      *)
(***************************************************************************)
MaxSetups == 4

\* the channels one setupRealtimeSubscriptions() subscribes, named
\* `${topic}-${currentUser.id}`
NotifTopics == {"notifications", "messages", "friends", "likes", "comments"}

NewChannels(gen) == [topic : NotifTopics, gen : {gen}]

NotifUnmounted ==
    [mounted |-> FALSE, currentUser |-> FALSE, isOnline |-> TRUE,
     timer |-> FALSE, cleanup |-> "none", setups |-> 0]

NotifInit ==
    /\ notif = NotifUnmounted
    /\ channelsRef = {}
    /\ nt_channels = {}

\* the cleanup an effect run returns, named by the branch that returned it:
\* nothing without a user, clearTimeout(reconnectTimer) when isOnline,
\* else the removal of the channels in channelsRef
CleanupOf(hasUser, isOnline) ==
    IF ~hasUser THEN "none" ELSE IF isOnline THEN "timer" ELSE "channels"

\* the channels left subscribed once a cleanup of this kind has run
ChannelsAfterCleanup(kind, channels, ref) ==
    IF kind = "channels" THEN channels \ ref ELSE channels

RefAfterCleanup(kind, ref) == IF kind = "channels" THEN {} ELSE ref

\* setupRealtimeSubscriptions(): removeChannel for each channel in
\* channelsRef.current, then five new channels subscribed and stored there
ChannelsAfterSetup(channels, ref, gen) == (channels \ ref) \cup NewChannels(gen)

\* the component mounts: useState(navigator.onLine), useRef([])
NotifMount ==
    /\ ~notif.mounted
    /\ \E online \in BOOLEAN :
          notif' = [NotifUnmounted EXCEPT !.mounted = TRUE, !.isOnline = online,
                                          !.setups = notif.setups]
    /\ channelsRef' = {}
    /\ UNCHANGED nt_channels
    /\ UNCHANGED notNotif

\* one run of the effect with a user: setupRealtimeSubscriptions(), and when
\* isOnline the reconnect timer
RunEffect(online, channels, ref) ==
    /\ nt_channels' = ChannelsAfterSetup(channels, ref, notif.setups + 1)
    /\ channelsRef' = NewChannels(notif.setups + 1)
    /\ notif' = [notif EXCEPT !.currentUser = TRUE,
                              !.isOnline = online,
                              !.timer = online,
                              !.cleanup = CleanupOf(TRUE, online),
                              !.setups = @ + 1]

\* initializeNotifications: setCurrentUser(user); the effect runs
NotifSetCurrentUser ==
    /\ notif.mounted
    /\ ~notif.currentUser
    /\ notif.setups < MaxSetups
    /\ RunEffect(notif.isOnline, nt_channels, channelsRef)
    /\ UNCHANGED notNotif

\* the window's online / offline event: setIsOnline; with a user the effect's
\* cleanup runs and the effect runs again
NotifOnlineChange ==
    /\ notif.mounted
    /\ notif.setups < MaxSetups
    /\ \E online \in BOOLEAN :
          /\ online # notif.isOnline
          /\ IF notif.currentUser
             THEN RunEffect(online,
                            ChannelsAfterCleanup(notif.cleanup, nt_channels, channelsRef),
                            RefAfterCleanup(notif.cleanup, channelsRef))
             ELSE /\ notif' = [notif EXCEPT !.isOnline = online]
                  /\ UNCHANGED <<channelsRef, nt_channels>>
    /\ UNCHANGED notNotif

\* the reconnect timer fires after 1 second: setupRealtimeSubscriptions()
NotifReconnectTimer ==
    /\ notif.timer
    /\ notif.setups < MaxSetups
    /\ nt_channels' = ChannelsAfterSetup(nt_channels, channelsRef, notif.setups + 1)
    /\ channelsRef' = NewChannels(notif.setups + 1)
    /\ notif' = [notif EXCEPT !.timer = FALSE, !.setups = @ + 1]
    /\ UNCHANGED notNotif

\* the component unmounts: the cleanup of the last effect run
NotifUnmount ==
    /\ notif.mounted
    /\ nt_channels' = ChannelsAfterCleanup(notif.cleanup, nt_channels, channelsRef)
    /\ channelsRef' = RefAfterCleanup(notif.cleanup, channelsRef)
    /\ notif' = [notif EXCEPT !.mounted = FALSE, !.currentUser = FALSE,
                              !.cleanup = "none",
                              !.timer = IF notif.cleanup = "timer" THEN FALSE ELSE @]
    /\ UNCHANGED notNotif

(***************************************************************************)
(* The group tables and the functions that decide join requests             *)
(***************************************************************************)
MaxGroups == 1
MaxTx == 2

Users == {"u1", "u2"}
NoUser == "none"
NoGroup == "none"

\* gen_random_uuid() for the n-th group created
GroupUuid(n) == <<"g1", "g2", "g3", "g4">>[n]
GroupIds == {GroupUuid(n) : n \in 1..MaxGroups}

\* the id of the join request of a user for a group: UNIQUE(group_id, user_id)
\* leaves one row at most for the pair
RequestUuid(g, u) == [group_id |-> g, user_id |-> u]
NoRequest == RequestUuid(NoGroup, NoUser)
RequestUuids == {RequestUuid(g, u) : g \in GroupIds, u \in Users}

TxIds == 1..MaxTx
TxIdle ==
    [fn |-> "none", pc |-> "idle", caller |-> NoUser, request_uuid |-> NoRequest,
     admin_uuid |-> NoUser, v_group_id |-> NoGroup, v_user_id |-> NoUser,
     v_already_member |-> FALSE, result |-> "none"]

GroupDbInit ==
    /\ groups = {}
    /\ group_members = {}
    /\ group_join_requests = {}
    /\ db_notifications = {}
    /\ tx = [t \in TxIds |-> TxIdle]

\* EXISTS (SELECT 1 FROM group_members WHERE group_id AND user_id AND role = 'admin')
IsGroupAdmin(g, u) ==
    \E m \in group_members : m.group_id = g /\ m.user_id = u /\ m.role = "admin"

\* EXISTS (SELECT 1 FROM group_members WHERE group_id AND user_id)
IsGroupMember(g, u) ==
    \E m \in group_members : m.group_id = g /\ m.user_id = u

\* UPDATE group_join_requests SET status = ... WHERE id = request_uuid
UpdateRequestStatus(requests, request_uuid, status) ==
    {IF r.id = request_uuid THEN [r EXCEPT !.status = status] ELSE r : r \in requests}

\* the count is left as it is
KeepMemberCount(rows, g) == rows

\* UPDATE groups SET member_count = member_count + 1 WHERE id = v_group_id
IncrementMemberCount(rows, g) ==
    {IF r.id = g THEN [r EXCEPT !.member_count = @ + 1] ELSE r : r \in rows}

\* gen_random_uuid(): the least number no row has; while no row is deleted
\* the rows are numbered as they are inserted, and the id orders them as
\* created_at does
FreshId(rows) ==
    CHOOSE n \in 1..(Cardinality(rows) + 1) :
        /\ \A r \in rows : r.id # n
        /\ \A m \in 1..(n - 1) : \E r \in rows : r.id = m

\* INSERT INTO notifications (user_id, type, content, reference_id, read)
NotificationRow(rows, u, type, g) ==
    [id |-> FreshId(rows),
     user_id |-> u, type |-> type, reference_id |-> g, read |-> FALSE]

\* create_group_with_admin(p_creator_id): the group with member_count 1 and
\* the creator's admin row
create_group_with_admin(p_creator_id) ==
    /\ Cardinality(groups) < MaxGroups
    /\ LET v_group_id == GroupUuid(Cardinality(groups) + 1)
       IN /\ groups' = groups \cup
                 {[id |-> v_group_id, created_by |-> p_creator_id, member_count |-> 1]}
          /\ group_members' = group_members \cup
                 {[group_id |-> v_group_id, user_id |-> p_creator_id, role |-> "admin"]}
    /\ UNCHANGED <<group_join_requests, db_notifications, tx>>

\* RETURN: the call is over and its connection serves the next one
Return(t, result) == [TxIdle EXCEPT !.pc = "done", !.result = result]

Free(t) == tx[t].pc \in {"idle", "done"}

\* a call of either function arrives: caller is auth.uid() of the session
\* that makes it, request_uuid and admin_uuid are its arguments
StartTx(fn, caller, request_uuid, admin_uuid) ==
    \E t \in TxIds :
        /\ Free(t)
        /\ \A o \in TxIds : o < t => ~Free(o)
        /\ tx' = [tx EXCEPT ![t] = [TxIdle EXCEPT !.fn = fn, !.pc = "select_request",
                                                  !.caller = caller,
                                                  !.request_uuid = request_uuid,
                                                  !.admin_uuid = admin_uuid]]
        /\ UNCHANGED <<groups, group_members, group_join_requests, db_notifications>>

\* SELECT group_id, user_id INTO v_group_id, v_user_id FROM group_join_requests
\* WHERE id = request_uuid AND status = 'pending'; RETURN false when none
TxSelectRequest(t) ==
    /\ tx[t].pc = "select_request"
    /\ LET found == {r \in group_join_requests :
                        r.id = tx[t].request_uuid /\ r.status = "pending"}
       IN IF found = {}
          THEN tx' = [tx EXCEPT ![t] = Return(t, "false")]
          ELSE \E r \in found :
                  tx' = [tx EXCEPT ![t] = [@ EXCEPT !.pc = "check_admin",
                                                    !.v_group_id = r.group_id,
                                                    !.v_user_id = r.user_id]]
    /\ UNCHANGED <<groups, group_members, group_join_requests, db_notifications>>
    /\ UNCHANGED notGroupDb

\* SELECT EXISTS (... user_id = admin_uuid AND role = 'admin') INTO v_is_admin;
\* RETURN false when not
TxCheckAdmin(t) ==
    /\ tx[t].pc = "check_admin"
    /\ IF IsGroupAdmin(tx[t].v_group_id, tx[t].admin_uuid)
       THEN tx' = [tx EXCEPT ![t] = [@ EXCEPT !.pc =
                        IF tx[t].fn = "approve" THEN "check_member" ELSE "write"]]
       ELSE tx' = [tx EXCEPT ![t] = Return(t, "false")]
    /\ UNCHANGED <<groups, group_members, group_join_requests, db_notifications>>
    /\ UNCHANGED notGroupDb

\* approve only: SELECT EXISTS (... user_id = v_user_id) INTO v_already_member
TxCheckMember(t) ==
    /\ tx[t].pc = "check_member"
    /\ tx' = [tx EXCEPT ![t] = [@ EXCEPT !.pc = "write",
                  !.v_already_member = IsGroupMember(tx[t].v_group_id, tx[t].v_user_id)]]
    /\ UNCHANGED <<groups, group_members, group_join_requests, db_notifications>>
    /\ UNCHANGED notGroupDb

\* approve: the statements that write, and the commit.  The first of them
\* locks the request's row until the commit, and what they write is not
\* visible before it, so they take effect together.  The INSERT into
\* group_members fails on UNIQUE(group_id, user_id) when the row has appeared
\* since the check, and the call then rolls back with an error.
TxApproveWrite(t) ==
    /\ tx[t].pc = "write"
    /\ tx[t].fn = "approve"
    /\ LET g == tx[t].v_group_id
           u == tx[t].v_user_id
       IN IF tx[t].v_already_member
          THEN /\ group_join_requests' =
                      UpdateRequestStatus(group_join_requests, tx[t].request_uuid, "approved")
               /\ tx' = [tx EXCEPT ![t] = Return(t, "true")]
               /\ UNCHANGED <<groups, group_members, db_notifications>>
          ELSE IF IsGroupMember(g, u)
          THEN /\ tx' = [tx EXCEPT ![t] = Return(t, "error")]
               /\ UNCHANGED <<groups, group_members, group_join_requests, db_notifications>>
          ELSE /\ group_join_requests' =
                      UpdateRequestStatus(group_join_requests, tx[t].request_uuid, "approved")
               /\ group_members' = group_members \cup
                      {[group_id |-> g, user_id |-> u, role |-> "member"]}
               /\ groups' = IncrementMemberCount(groups, g)
               /\ db_notifications' = db_notifications \cup
                      {NotificationRow(db_notifications, u, "group_join_approved", g)}
               /\ tx' = [tx EXCEPT ![t] = Return(t, "true")]
    /\ UNCHANGED notGroupDb

\* reject: the UPDATE of the status, the notification, and the commit
TxRejectWrite(t) ==
    /\ tx[t].pc = "write"
    /\ tx[t].fn = "reject"
    /\ group_join_requests' =
           UpdateRequestStatus(group_join_requests, tx[t].request_uuid, "rejected")
    /\ db_notifications' = db_notifications \cup
           {NotificationRow(db_notifications, tx[t].v_user_id,
                            "group_join_rejected", tx[t].v_group_id)}
    /\ tx' = [tx EXCEPT ![t] = Return(t, "true")]
    /\ UNCHANGED <<groups, group_members>>
    /\ UNCHANGED notGroupDb

\* supabase.rpc('approve_group_join_request', ...) from any signed-in session:
\* GRANT EXECUTE ... TO authenticated
approve_group_join_request ==
    /\ \E caller \in Users, request_uuid \in RequestUuids, admin_uuid \in Users :
          StartTx("approve", caller, request_uuid, admin_uuid)
    /\ UNCHANGED notGroupDb

reject_group_join_request ==
    /\ \E caller \in Users, request_uuid \in RequestUuids, admin_uuid \in Users :
          StartTx("reject", caller, request_uuid, admin_uuid)
    /\ UNCHANGED notGroupDb

(***************************************************************************)
(* group_messages and the hook's list of the current group's messages      *)
(***************************************************************************)
MaxMessages == 2

NoMessage == [id |-> 0, group_id |-> NoGroup, sender_id |-> NoUser]

SmIdle == [pc |-> "idle", data |-> NoMessage]
EhIdle == [pc |-> "idle", payload |-> NoMessage]

MsgInit ==
    /\ group_messages = {}
    /\ groupMessages = <<>>
    /\ gm_events = <<>>
    /\ sm = SmIdle
    /\ eh = EhIdle

\* the rows as a list, oldest first
RECURSIVE OldestFirst(_)
OldestFirst(rows) ==
    IF rows = {} THEN <<>>
    ELSE LET oldest == CHOOSE r \in rows : \A o \in rows : r.id <= o.id
         IN <<oldest>> \o OldestFirst(rows \ {oldest})

\* fetchGroupMessages(groupId): get_group_messages_with_profiles, newest
\* first, reversed to show oldest first
FetchGroupMessages(groupId) ==
    OldestFirst({m \in group_messages : m.group_id = groupId})

(***************************************************************************)
(* useGroups: the effect that subscribes the four group channels           *)
(***************************************************************************)
GroupTopics == {"group-messages", "group-members", "group-join-requests", "groups"}
GroupChoices == {NoGroup} \cup GroupIds

GroupsUnmounted ==
    [mounted |-> FALSE, currentUser |-> NoUser, currentGroup |-> NoGroup,
     isAdmin |-> FALSE, channels |-> {}]

GroupsInit == gh = GroupsUnmounted

GroupsMount ==
    /\ ~gh.mounted
    /\ gh' = [GroupsUnmounted EXCEPT !.mounted = TRUE]
    /\ UNCHANGED msgHookVars
    /\ UNCHANGED notGroups

\* fetchGroupMembers(groupId): setIsAdmin(some member row is the current
\* user's with role 'admin')
FetchedIsAdmin(g, u) == IsGroupAdmin(g, u)

\* getCurrentUser: setCurrentUser(user); the effect subscribes the channels,
\* and the group data of the current group is loaded again
GroupsSetCurrentUser ==
    /\ gh.mounted
    /\ gh.currentUser = NoUser
    /\ \E u \in Users :
          gh' = [gh EXCEPT !.currentUser = u, !.channels = GroupTopics,
                           !.isAdmin = IF gh.currentGroup # NoGroup
                                       THEN FetchedIsAdmin(gh.currentGroup, u)
                                       ELSE @]
    /\ groupMessages' = IF gh.currentGroup # NoGroup
                        THEN FetchGroupMessages(gh.currentGroup)
                        ELSE groupMessages
    /\ UNCHANGED <<gm_events, sm, eh>>
    /\ UNCHANGED notGroups

\* setCurrentGroup: with a user the cleanup removes the four channels and the
\* effect subscribes them again with the new filter; fetchGroupMembers of the
\* new group sets isAdmin and fetchGroupMessages sets groupMessages
GroupsSetCurrentGroup ==
    /\ gh.mounted
    /\ \E g \in GroupChoices :
          /\ g # gh.currentGroup
          /\ gh' = [gh EXCEPT !.currentGroup = g,
                              !.isAdmin = IF g # NoGroup
                                          THEN FetchedIsAdmin(g, gh.currentUser)
                                          ELSE @,
                              !.channels = IF gh.currentUser # NoUser
                                           THEN (@ \ GroupTopics) \cup GroupTopics
                                           ELSE @]
          /\ groupMessages' = IF g # NoGroup THEN FetchGroupMessages(g)
                              ELSE groupMessages
    /\ gm_events' = <<>>
    /\ UNCHANGED <<sm, eh>>
    /\ UNCHANGED notGroups

\* unmount: removeChannel of the four channels; the instance's state is gone
GroupsUnmount ==
    /\ gh.mounted
    /\ gh' = [GroupsUnmounted EXCEPT !.channels = gh.channels \ GroupTopics]
    /\ groupMessages' = <<>>
    /\ gm_events' = <<>>
    /\ sm' = SmIdle
    /\ eh' = EhIdle
    /\ UNCHANGED notGroups

\* createGroup: rpc('create_group_with_admin', p_creator_id: currentUser.id)
GroupsCreateGroup ==
    /\ gh.mounted
    /\ gh.currentUser # NoUser
    /\ create_group_with_admin(gh.currentUser)
    /\ UNCHANGED notGroupDb

\* sendJoinRequest(groupId): the insert of a pending request of the current
\* user; error 23505 when the user has a request for the group already
GroupsSendJoinRequest ==
    /\ gh.mounted
    /\ gh.currentUser # NoUser
    /\ \E g \in {r.id : r \in groups} :
          /\ \A r \in group_join_requests :
                 ~(r.group_id = g /\ r.user_id = gh.currentUser)
          /\ group_join_requests' = group_join_requests \cup
                 {[id |-> RequestUuid(g, gh.currentUser), group_id |-> g,
                   user_id |-> gh.currentUser, status |-> "pending"]}
    /\ UNCHANGED <<groups, group_members, db_notifications, tx>>
    /\ UNCHANGED notGroupDb

\* approveJoinRequest(requestId): if (!currentUser || !isAdmin) return false;
\* rpc('approve_group_join_request', admin_uuid: currentUser.id)
GroupsApproveJoinRequest ==
    /\ gh.mounted
    /\ gh.currentUser # NoUser /\ gh.isAdmin
    /\ \E requestId \in RequestUuids :
          StartTx("approve", gh.currentUser, requestId, gh.currentUser)
    /\ UNCHANGED notGroupDb

\* rejectJoinRequest(requestId), the same with reject_group_join_request
GroupsRejectJoinRequest ==
    /\ gh.mounted
    /\ gh.currentUser # NoUser /\ gh.isAdmin
    /\ \E requestId \in RequestUuids :
          StartTx("reject", gh.currentUser, requestId, gh.currentUser)
    /\ UNCHANGED notGroupDb

GroupsNext ==
    \/ GroupsMount \/ GroupsSetCurrentUser \/ GroupsSetCurrentGroup \/ GroupsUnmount
    \/ GroupsCreateGroup \/ GroupsSendJoinRequest
    \/ GroupsApproveJoinRequest \/ GroupsRejectJoinRequest
    \/ approve_group_join_request \/ reject_group_join_request
    \/ \E t \in TxIds : TxSelectRequest(t)
    \/ \E t \in TxIds : TxCheckAdmin(t)
    \/ \E t \in TxIds : TxCheckMember(t)
    \/ \E t \in TxIds : TxApproveWrite(t)
    \/ \E t \in TxIds : TxRejectWrite(t)

(***************************************************************************)
(* useGroups: sendGroupMessage and the INSERT handler of group-messages     *)
(***************************************************************************)
\* "Group members can send messages": auth.uid() = sender_id and the sender
\* is a member of the group
MembersCanSend(uid, row) == uid = row.sender_id /\ IsGroupMember(row.group_id, uid)

\* the events an insert gives the hook's channel, subscribed with the filter
\* group_id=eq.${currentGroup.id}
Delivered(row) ==
    IF "group-messages" \in gh.channels /\ row.group_id = gh.currentGroup
    THEN <<row>> ELSE <<>>

\* prev.some(msg => msg.id === newMessage.id)
HasMessage(prev, newMessage) == \E i \in 1..Len(prev) : prev[i].id = newMessage.id

\* sendGroupMessage(currentGroup.id, content): the insert, .select().single()
GroupsSendGroupMessage ==
    /\ gh.mounted
    /\ gh.currentUser # NoUser /\ gh.currentGroup # NoGroup
    /\ sm.pc = "idle"
    /\ Cardinality(group_messages) < MaxMessages
    /\ LET row == [id |-> Cardinality(group_messages) + 1,
                   group_id |-> gh.currentGroup, sender_id |-> gh.currentUser]
       IN /\ MembersCanSend(gh.currentUser, row)
          /\ group_messages' = group_messages \cup {row}
          /\ gm_events' = gm_events \o Delivered(row)
          /\ sm' = [pc |-> "select_profile", data |-> row]
    /\ UNCHANGED <<groupMessages, eh>>
    /\ UNCHANGED notMsg

\* sendGroupMessage after the sender's profile has come:
\* setGroupMessages(prev => [...prev, newMessage])
SmAppend ==
    /\ sm.pc = "select_profile"
    /\ groupMessages' = Append(groupMessages, sm.data)
    /\ sm' = SmIdle
    /\ UNCHANGED <<group_messages, gm_events, eh>>
    /\ UNCHANGED notMsg

\* the INSERT handler starts: if (!currentGroup) return; for a message of the
\* current group the sender's profile is fetched
EhInsertEvent ==
    /\ gm_events # <<>>
    /\ eh.pc = "idle"
    /\ gm_events' = Tail(gm_events)
    /\ eh' = IF gh.currentGroup # NoGroup /\ Head(gm_events).group_id = gh.currentGroup
             THEN [pc |-> "select_profile", payload |-> Head(gm_events)]
             ELSE EhIdle
    /\ UNCHANGED <<group_messages, groupMessages, sm>>
    /\ UNCHANGED notMsg

\* the INSERT handler after the profile has come: added only if not already
\* in the list
EhAppend ==
    /\ eh.pc = "select_profile"
    /\ groupMessages' = IF HasMessage(groupMessages, eh.payload)
                        THEN groupMessages
                        ELSE Append(groupMessages, eh.payload)
    /\ eh' = EhIdle
    /\ UNCHANGED <<group_messages, gm_events, sm>>
    /\ UNCHANGED notMsg

MessagesNext ==
    \/ GroupsMount \/ GroupsSetCurrentUser \/ GroupsSetCurrentGroup \/ GroupsUnmount
    \/ GroupsCreateGroup
    \/ GroupsSendGroupMessage \/ SmAppend \/ EhInsertEvent \/ EhAppend

\* C13: groupMessages never holds two entries with the same message id.
C13_NoDuplicateMessages ==
    \A i, j \in 1..Len(groupMessages) :
        groupMessages[i].id = groupMessages[j].id => i = j

\* the call in slot t returns in this step
Returns(t) == ~Free(t) /\ tx'[t].pc = "done"

\* C5: a join request is approved or rejected, and a member row added, only
\* when the authenticated user who makes the call is an admin of the
\* request's group; the call of any other user returns false and changes no
\* join request, member, member_count or notification row.
C5_OnlyAdminCallerDecides ==
    [][\A t \in TxIds :
          (Returns(t) /\ ~IsGroupAdmin(tx[t].request_uuid.group_id, tx[t].caller))
          => /\ tx'[t].result = "false"
             /\ UNCHANGED <<groups, group_members, group_join_requests,
                            db_notifications>>]_vars

\* C6: the status of a join request changes only from 'pending', and only to
\* 'approved' or 'rejected'; a request that has been decided keeps its status.
C6_DecidedOnce ==
    [][\A r \in group_join_requests, q \in group_join_requests' :
          (r.id = q.id /\ r.status # q.status)
          => r.status = "pending" /\ q.status \in {"approved", "rejected"}]_vars

\* create_group_with_admin and approve_group_join_request, with the join
\* requests to approve
MembersNext ==
    \/ GroupsMount \/ GroupsSetCurrentUser \/ GroupsUnmount
    \/ GroupsCreateGroup \/ GroupsSendJoinRequest
    \/ approve_group_join_request
    \/ \E t \in TxIds : TxSelectRequest(t)
    \/ \E t \in TxIds : TxCheckAdmin(t)
    \/ \E t \in TxIds : TxCheckMember(t)
    \/ \E t \in TxIds : TxApproveWrite(t)

MembersOf(g) == {m \in group_members : m.group_id = g}

MemberCountMatches ==
    \A g \in groups : g.member_count = Cardinality(MembersOf(g.id))

OneRowPerMember ==
    \A m, n \in group_members :
        (m.group_id = n.group_id /\ m.user_id = n.user_id) => m = n

\* the approval in slot t commits in this step for a user who is a member
ApprovesMember(t) ==
    /\ tx[t].pc = "write" /\ tx[t].fn = "approve"
    /\ tx'[t].pc = "done" /\ tx'[t].result = "true"
    /\ IsGroupMember(tx[t].v_group_id, tx[t].v_user_id)

\* C14: each group's member_count is the number of its group_members rows,
\* group_members has one row at most for a group and a user, and the approval
\* of a request of a user who is a member already adds no row and leaves
\* member_count as it is.
C14_MemberCountIsMembers ==
    /\ [](MemberCountMatches /\ OneRowPerMember)
    /\ [][\A t \in TxIds :
             ApprovesMember(t) => UNCHANGED <<group_members, groups>>]_vars

\* a request has been approved into a group that now has two members, and a
\* request of a user who was a member already has been approved too
C14_Witness ==
    /\ \E g \in groups : g.member_count = 2 /\ Cardinality(MembersOf(g.id)) = 2
    /\ \E r \in group_join_requests :
          /\ r.status = "approved"
          /\ \E m \in group_members :
                m.group_id = r.group_id /\ m.user_id = r.user_id /\ m.role = "admin"

ListenersNext ==
    \/ NotifMount \/ NotifSetCurrentUser \/ NotifOnlineChange
    \/ NotifReconnectTimer \/ NotifUnmount
    \/ GroupsMount \/ GroupsSetCurrentUser \/ GroupsSetCurrentGroup \/ GroupsUnmount
    \/ FeedMount \/ FeedGetCurrentUser \/ FeedUnmount

\* C4: once a hook's component has unmounted, none of the listeners it
\* subscribed is still subscribed and no timer of it is pending.
C4_UnsubscribedAfterUnmount ==
    /\ ~notif.mounted => nt_channels = {} /\ ~notif.timer
    /\ ~gh.mounted => gh.channels = {}
    /\ ~feed.mounted => ~feed.listener /\ ~feed.channel

(***************************************************************************)
(* useRealtimeNotifications and the Notifications page                     *)
(***************************************************************************)
MaxNotifications == 2

NoNotification == 0

RnInitial == [currentUser |-> NoUser, notifications |-> <<>>, unreadCount |-> 0]

PageInitial ==
    [showClearDialog |-> FALSE, toast |-> "", handler |-> "none",
     notificationId |-> NoNotification]

PageInit ==
    /\ rn = RnInitial
    /\ rn_events = <<>>
    /\ page = PageInitial

\* .order('created_at', { ascending: false }): the rows as a list, newest first
RECURSIVE NewestFirst(_)
NewestFirst(rows) ==
    IF rows = {} THEN <<>>
    ELSE LET newest == CHOOSE r \in rows : \A o \in rows : o.id <= r.id
         IN <<newest>> \o NewestFirst(rows \ {newest})

\* the list entry of a row
Entry(row) == [id |-> row.id, read |-> row.read]

\* fetchNotifications(userId): select ... eq('user_id', userId), newest first
FetchNotifications(userId) ==
    LET rows == NewestFirst({r \in db_notifications : r.user_id = userId})
    IN [i \in 1..Len(rows) |-> Entry(rows[i])]

\* data.filter(n => !n.read).length
Unread(list) == Cardinality({i \in 1..Len(list) : ~list[i].read})

\* Math.max(0, prev - 1)
Decrement(prev) == IF prev > 0 THEN prev - 1 ELSE 0

\* the postgres_changes events a write gives the channel of the signed-in
\* user, whose filter is user_id = currentUser.id
EventsFor(event, rows) ==
    LET mine == NewestFirst({r \in rows : r.user_id = rn.currentUser})
    IN [i \in 1..Len(mine) |-> [event |-> event, new |-> Entry(mine[i])]]

\* getCurrentUser: setCurrentUser(user); await fetchNotifications(user.id);
\* the effect subscribes the channel notifications-${currentUser.id}
RnGetCurrentUser ==
    /\ rn.currentUser = NoUser
    /\ \E u \in Users :
          LET data == FetchNotifications(u)
          IN rn' = [currentUser |-> u, notifications |-> data,
                    unreadCount |-> Unread(data)]
    /\ UNCHANGED <<rn_events, page, db_notifications>>
    /\ UNCHANGED notPage

\* createNotification(userId, type, content): the insert of an unread row
RnCreateNotification ==
    /\ Cardinality(db_notifications) < MaxNotifications
    /\ \E userId \in Users :
          LET row == NotificationRow(db_notifications, userId, "like", NoGroup)
          IN /\ db_notifications' = db_notifications \cup {row}
             /\ rn_events' = rn_events \o EventsFor("INSERT", {row})
    /\ UNCHANGED <<rn, page>>
    /\ UNCHANGED notPage

\* the channel's INSERT handler: the new notification goes first, unreadCount + 1
RnInsertEvent ==
    /\ rn_events # <<>>
    /\ Head(rn_events).event = "INSERT"
    /\ rn' = [rn EXCEPT !.notifications = <<Head(rn_events).new>> \o @,
                        !.unreadCount = @ + 1]
    /\ rn_events' = Tail(rn_events)
    /\ UNCHANGED <<page, db_notifications>>
    /\ UNCHANGED notPage

\* the channel's UPDATE handler: the notification of that id is replaced;
\* if (updatedNotification.read) unreadCount = max(0, unreadCount - 1)
RnUpdateEvent ==
    /\ rn_events # <<>>
    /\ Head(rn_events).event = "UPDATE"
    /\ LET updated == Head(rn_events).new
       IN rn' = [rn EXCEPT
                   !.notifications = [i \in 1..Len(@) |->
                        IF @[i].id = updated.id THEN updated ELSE @[i]],
                   !.unreadCount = IF updated.read THEN Decrement(@) ELSE @]
    /\ rn_events' = Tail(rn_events)
    /\ UNCHANGED <<page, db_notifications>>
    /\ UNCHANGED notPage

\* UPDATE notifications SET read = true for the rows given
SetRead(rows) ==
    {IF r \in rows THEN [r EXCEPT !.read = TRUE] ELSE r : r \in db_notifications}

\* markAsRead(notificationId), the button of an unread notification: the
\* update of the row, then the optimistic update of the list and the count
RnMarkAsRead ==
    /\ \E i \in 1..Len(rn.notifications) :
          /\ ~rn.notifications[i].read
          /\ LET notificationId == rn.notifications[i].id
                 rows == {r \in db_notifications : r.id = notificationId}
             IN /\ db_notifications' = SetRead(rows)
                /\ rn_events' = rn_events \o
                       EventsFor("UPDATE", {[r EXCEPT !.read = TRUE] : r \in rows})
                /\ rn' = [rn EXCEPT
                            !.notifications = [j \in 1..Len(@) |->
                                 IF @[j].id = notificationId
                                 THEN [@[j] EXCEPT !.read = TRUE] ELSE @[j]],
                            !.unreadCount = Decrement(@)]
    /\ UNCHANGED page
    /\ UNCHANGED notPage

\* markAllAsRead, the button shown while unreadCount > 0: the update of the
\* user's unread rows, every list entry read, unreadCount 0
RnMarkAllAsRead ==
    /\ rn.currentUser # NoUser
    /\ Len(rn.notifications) > 0 /\ rn.unreadCount > 0
    /\ LET rows == {r \in db_notifications : r.user_id = rn.currentUser /\ ~r.read}
       IN /\ db_notifications' = SetRead(rows)
          /\ rn_events' = rn_events \o
                 EventsFor("UPDATE", {[r EXCEPT !.read = TRUE] : r \in rows})
    /\ rn' = [rn EXCEPT !.notifications = [j \in 1..Len(@) |-> [@[j] EXCEPT !.read = TRUE]],
                        !.unreadCount = 0]
    /\ UNCHANGED page
    /\ UNCHANGED notPage

\* the Clear All button, shown while notifications.length > 0
PageOpenClearDialog ==
    /\ Len(rn.notifications) > 0
    /\ ~page.showClearDialog
    /\ page' = [page EXCEPT !.showClearDialog = TRUE, !.handler = "setShowClearDialog"]
    /\ UNCHANGED <<rn, rn_events, db_notifications>>
    /\ UNCHANGED notPage

\* Cancel: onOpenChange(false)
PageCancelClearDialog ==
    /\ page.showClearDialog
    /\ page' = [page EXCEPT !.showClearDialog = FALSE, !.handler = "setShowClearDialog"]
    /\ UNCHANGED <<rn, rn_events, db_notifications>>
    /\ UNCHANGED notPage

\* the dialog's Clear All action, clearAllNotifications(): the dialog closes
\* and the toast shows; the context's notifications are not touched
PageClearAllNotifications ==
    /\ page.showClearDialog
    /\ page' = [showClearDialog |-> FALSE, toast |-> "All notifications cleared",
                handler |-> "clearAllNotifications", notificationId |-> NoNotification]
    /\ UNCHANGED <<rn, rn_events, db_notifications>>
    /\ UNCHANGED notPage

\* the X button of a notification, deleteNotification(notification.id): the
\* toast shows; the context's notifications are not touched
PageDeleteNotification ==
    /\ \E i \in 1..Len(rn.notifications) :
          LET notificationId == rn.notifications[i].id
          IN page' = [page EXCEPT !.toast = "Notification deleted",
                                  !.handler = "deleteNotification",
                                  !.notificationId = notificationId]
    /\ UNCHANGED <<rn, rn_events, db_notifications>>
    /\ UNCHANGED notPage

PageNext ==
    \/ RnGetCurrentUser \/ RnCreateNotification \/ RnInsertEvent \/ RnUpdateEvent
    \/ RnMarkAsRead \/ RnMarkAllAsRead
    \/ PageOpenClearDialog \/ PageCancelClearDialog
    \/ PageClearAllNotifications \/ PageDeleteNotification

\* the page's handler of this name has run in this step
Ran(handler) == page' # page /\ page'.handler = handler

\* C10: confirming Clear All leaves the displayed list empty, and deleting a
\* notification leaves the list without that notification.
C10_ClearAndDeleteRemove ==
    [][/\ Ran("clearAllNotifications") => rn'.notifications = <<>>
       /\ Ran("deleteNotification") =>
             \A i \in 1..Len(rn'.notifications) :
                 rn'.notifications[i].id # page'.notificationId]_vars

\* C12: unreadCount is the number of entries of notifications that are not
\* read, and is never negative.
C12_UnreadCountMatches ==
    /\ rn.unreadCount = Unread(rn.notifications)
    /\ rn.unreadCount >= 0

(***************************************************************************)
(* Row level security on notifications: the statements of a signed-in      *)
(* session, auth.uid() = caller                                            *)
(***************************************************************************)
NotificationIds == 1..MaxNotifications

RlsNone ==
    [op |-> "none", caller |-> NoUser, user_id |-> NoUser, status |-> "none",
     returned |-> {}]

RlsInit == rls = RlsNone

\* "Users can read own notifications" FOR SELECT USING (auth.uid() = user_id)
UsersCanReadOwn(uid, row) == uid = row.user_id

\* "Users can insert own notifications" FOR INSERT WITH CHECK (auth.uid() = user_id)
UsersCanInsertOwn(uid, row) == uid = row.user_id

\* "Users can update own notifications" FOR UPDATE USING (auth.uid() = user_id)
UsersCanUpdateOwn(uid, row) == uid = row.user_id

\* "Users can delete own notifications" FOR DELETE USING (auth.uid() = user_id)
UsersCanDeleteOwn(uid, row) == uid = row.user_id

\* the policy is for the service role only: no signed-in user passes it
SystemOnly(uid, row) == FALSE

\* "System can insert notifications for any user" FOR INSERT TO authenticated
\* WITH CHECK (true)
SystemCanInsertForAnyUser(uid, row) == TRUE

\* the permissive policies of a command are combined with OR
InsertCheck(uid, row) == UsersCanInsertOwn(uid, row) \/ SystemCanInsertForAnyUser(uid, row)

\* an UPDATE policy without WITH CHECK checks the new row with its USING
UpdateCheck(uid, row) == UsersCanUpdateOwn(uid, row)

\* from('notifications').select('*')
RlsSelect ==
    /\ \E caller \in Users :
          rls' = [op |-> "select", caller |-> caller, user_id |-> NoUser,
                  status |-> "ok",
                  returned |-> {r \in db_notifications : UsersCanReadOwn(caller, r)}]
    /\ UNCHANGED db_notifications
    /\ UNCHANGED notRls

\* from('notifications').insert({ user_id, type, content, read: false })
RlsInsert ==
    /\ Cardinality(db_notifications) < MaxNotifications
    /\ \E caller \in Users, user_id \in Users :
          LET row == NotificationRow(db_notifications, user_id, "like", NoGroup)
          IN IF InsertCheck(caller, row)
             THEN /\ db_notifications' = db_notifications \cup {row}
                  /\ rls' = [op |-> "insert", caller |-> caller, user_id |-> user_id,
                             status |-> "ok", returned |-> {}]
             ELSE /\ UNCHANGED db_notifications
                  /\ rls' = [op |-> "insert", caller |-> caller, user_id |-> user_id,
                             status |-> "error", returned |-> {}]
    /\ UNCHANGED notRls

\* from('notifications').update({ read: true, user_id }).eq('id', id): the
\* rows the USING lets the caller see are updated; a new row that fails the
\* check fails the statement
RlsUpdate ==
    /\ \E caller \in Users, id \in NotificationIds, user_id \in Users :
          LET targets == {r \in db_notifications :
                              r.id = id /\ UsersCanUpdateOwn(caller, r)}
              updated == {[r EXCEPT !.read = TRUE, !.user_id = user_id] : r \in targets}
          IN IF \A r \in updated : UpdateCheck(caller, r)
             THEN /\ db_notifications' = (db_notifications \ targets) \cup updated
                  /\ rls' = [op |-> "update", caller |-> caller, user_id |-> user_id,
                             status |-> "ok", returned |-> updated]
             ELSE /\ UNCHANGED db_notifications
                  /\ rls' = [op |-> "update", caller |-> caller, user_id |-> user_id,
                             status |-> "error", returned |-> {}]
    /\ UNCHANGED notRls

\* from('notifications').delete().eq('id', id)
RlsDelete ==
    /\ \E caller \in Users, id \in NotificationIds :
          LET targets == {r \in db_notifications :
                              r.id = id /\ UsersCanDeleteOwn(caller, r)}
          IN /\ db_notifications' = db_notifications \ targets
             /\ rls' = [op |-> "delete", caller |-> caller, user_id |-> NoUser,
                        status |-> "ok", returned |-> targets]
    /\ UNCHANGED notRls

RlsNext == RlsSelect \/ RlsInsert \/ RlsUpdate \/ RlsDelete

\* a statement has run in this step
RlsStep == <<rls, db_notifications>>' # <<rls, db_notifications>>

\* the rows a statement returns, changes or removes are the caller's own, and
\* so are the rows an update leaves
RlsOwnRowsOnly ==
    /\ \A r \in rls'.returned : r.user_id = rls'.caller
    /\ \A r \in db_notifications \ db_notifications' : r.user_id = rls'.caller
    /\ rls'.op = "update" =>
           \A r \in db_notifications' \ db_notifications : r.user_id = rls'.caller

MaxToggles == 2
MaxLikes == 3

LikePosts == {"p1"}
NoPost == "none"
NoLike == 0
ToggleIds == 1..MaxToggles

TgIdle == [fn |-> "none", pc |-> "idle", post_id |-> NoPost, user_id |-> NoUser, existing |-> NoLike]

LikesInit ==
    /\ likes = {}
    /\ like_seq = 1
    /\ tg = [t \in ToggleIds |-> TgIdle]

LikesOf(post_id, user_id) == {r \in likes : r.post_id = post_id /\ r.user_id = user_id}

\* .select('id').eq(post_id).eq(user_id).single(): data is the row when exactly
\* one row matches, and null (with an error) when none or several match
SelectSingle(post_id, user_id) ==
    IF Cardinality(LikesOf(post_id, user_id)) = 1
    THEN {r.id : r \in LikesOf(post_id, user_id)}
    ELSE {NoLike}

\* SELECT id INTO existing_like_id: the first row the query returns, whichever
\* that is, and NULL when there is none
SelectIdInto(post_id, user_id) ==
    IF LikesOf(post_id, user_id) = {}
    THEN {NoLike}
    ELSE {r.id : r \in LikesOf(post_id, user_id)}

\* the constraints of the likes table: its primary key id
LikesConstraints(rows) == \A a, b \in rows : a.id = b.id => a = b

DeleteLike(rows, id) == {r \in rows : r.id # id}

InsertLike(rows, id, post_id, user_id) ==
    rows \cup {[id |-> id, post_id |-> post_id, user_id |-> user_id]}

FreeToggle(t) ==
    /\ tg[t].pc = "idle"
    /\ \A s \in 1..(t - 1) : tg[s].pc # "idle"

\* the statement after the read: delete the like found, or insert one
UnlikeOrLike(t) ==
    /\ tg[t].pc = "selected"
    /\ IF tg[t].existing # NoLike
       THEN /\ likes' = DeleteLike(likes, tg[t].existing)
            /\ UNCHANGED like_seq
       ELSE /\ like_seq <= MaxLikes
            /\ likes' = InsertLike(likes, like_seq, tg[t].post_id, tg[t].user_id)
            /\ LikesConstraints(likes')
            /\ like_seq' = like_seq + 1
    /\ tg' = [tg EXCEPT ![t] = TgIdle]
    /\ UNCHANGED notLikes

\* useUnifiedPosts.toggleLike(postId, false) up to its first await's result
toggleLike ==
    \E t \in ToggleIds, post_id \in LikePosts, user_id \in Users :
    \E existingLike \in SelectSingle(post_id, user_id) :
        /\ FreeToggle(t)
        /\ tg' = [tg EXCEPT ![t] = [fn |-> "toggleLike", pc |-> "selected", post_id |-> post_id,
                                    user_id |-> user_id, existing |-> existingLike]]
        /\ UNCHANGED <<likes, like_seq>>
        /\ UNCHANGED notLikes

ToggleLikeWrite ==
    \E t \in ToggleIds :
        /\ tg[t].fn = "toggleLike"
        /\ UnlikeOrLike(t)

\* toggle_post_like(post_uuid, user_uuid) up to the result of its SELECT
toggle_post_like ==
    \E t \in ToggleIds, post_uuid \in LikePosts, user_uuid \in Users :
    \E existing_like_id \in SelectIdInto(post_uuid, user_uuid) :
        /\ FreeToggle(t)
        /\ tg' = [tg EXCEPT ![t] = [fn |-> "toggle_post_like", pc |-> "selected", post_id |-> post_uuid,
                                    user_id |-> user_uuid, existing |-> existing_like_id]]
        /\ UNCHANGED <<likes, like_seq>>
        /\ UNCHANGED notLikes

TogglePostLikeWrite ==
    \E t \in ToggleIds :
        /\ tg[t].fn = "toggle_post_like"
        /\ UnlikeOrLike(t)

LikesNext ==
    \/ toggleLike
    \/ ToggleLikeWrite
    \/ toggle_post_like
    \/ TogglePostLikeWrite

\* C15: after any interleaving of like toggles (toggleLike on a Supabase post,
\* or toggle_post_like) by the same user on the same post, that user has at
\* most one row in likes for that post.
C15_AtMostOneLike ==
    \A post_id \in LikePosts, user_id \in Users :
        Cardinality(LikesOf(post_id, user_id)) <= 1

(***************************************************************************)
(* handleStoryClick of the two story strips, StoriesContainer and          *)
(* UnifiedCommunityFeed.  A call captures currentUser and viewedStories of *)
(* the render it was created in, awaits increment_story_views and then     *)
(* marks the story as viewed from what it captured.                        *)
(***************************************************************************)
MaxClicks == 2
MaxStoryCalls == 2

StoryStrips == {"StoriesContainer", "UnifiedCommunityFeed"}
StoryOwner == [s \in Stories |-> IF s = "s1" THEN "u1" ELSE "u2"]
NoStory == "none"
ClickIds == 1..MaxClicks

SvUnmounted ==
    [component |-> "none", user |-> NoUser, currentUser |-> NoUser,
     viewedStories |-> {}, selectedStory |-> NoStory]

HsIdle ==
    [pc |-> "idle", component |-> "none", story |-> NoStory, currentUser |-> NoUser,
     viewedStories |-> {}, error |-> FALSE, live |-> FALSE]

ClicksInit ==
    /\ sv = SvUnmounted
    /\ local_storage = [u \in Users |-> {}]
    /\ hs = [c \in ClickIds |-> HsIdle]
    /\ sv_events = <<>>
    /\ rpc_calls = [u \in Users |-> [s \in Stories |-> 0]]

\* useState(null), useState(new Set()): a strip mounts in the session of a
\* signed-in user
SvMount ==
    \E component \in StoryStrips, user \in Users :
        /\ sv.component = "none"
        /\ sv' = [SvUnmounted EXCEPT !.component = component, !.user = user]
        /\ UNCHANGED <<local_storage, hs, sv_events, rpc_calls>>
        /\ UNCHANGED storyVars
        /\ UNCHANGED notClicks

\* the calls still awaiting their result go on after the strip is gone; their
\* state updates then have no effect
SvUnmount ==
    /\ sv.component # "none"
    /\ sv' = SvUnmounted
    /\ hs' = [c \in ClickIds |-> [hs[c] EXCEPT !.live = FALSE]]
    /\ sv_events' = <<>>
    /\ UNCHANGED <<local_storage, rpc_calls>>
    /\ UNCHANGED storyVars
    /\ UNCHANGED notClicks

\* story_views rows of a viewer: .from('story_views').select('story_id').eq('viewer_id', userId)
StoriesViewedBy(userId) == {r[1] : r \in {v \in story_views : v[2] = userId}}

\* StoriesContainer.getCurrentUser: the saved set replaces viewedStories when
\* localStorage has one
ScGetCurrentUser ==
    /\ sv.component = "StoriesContainer"
    /\ sv.currentUser = NoUser
    /\ sv' = [sv EXCEPT !.currentUser = sv.user,
                        !.viewedStories = IF local_storage[sv.user] # {}
                                          THEN local_storage[sv.user] ELSE @]
    /\ UNCHANGED <<local_storage, hs, sv_events, rpc_calls>>
    /\ UNCHANGED storyVars
    /\ UNCHANGED notClicks

\* UnifiedCommunityFeed.getCurrentUser with loadViewedStories: localStorage
\* merged with the viewer's story_views rows, and saved back
FeedStripGetCurrentUser ==
    /\ sv.component = "UnifiedCommunityFeed"
    /\ sv.currentUser = NoUser
    /\ LET mergedViewed == local_storage[sv.user] \cup StoriesViewedBy(sv.user)
       IN /\ sv' = [sv EXCEPT !.currentUser = sv.user, !.viewedStories = mergedViewed]
          /\ local_storage' = [local_storage EXCEPT ![sv.user] = mergedViewed]
    /\ UNCHANGED <<hs, sv_events, rpc_calls>>
    /\ UNCHANGED storyVars
    /\ UNCHANGED notClicks

\* story.user_id !== currentUser?.id && !viewedStories.has(story.id)
ShouldTrackView(story, currentUser, viewedStories) ==
    /\ StoryOwner[story] # currentUser
    /\ story \notin viewedStories

\* currentUser?.id as the rpc's viewer_uuid: left out, and so NULL, without a user
ViewerUuid(currentUser) == IF currentUser = NoUser THEN NULL ELSE currentUser

\* the story_views INSERT events the feed strip's viewsChannel receives
\* (filter viewer_id=eq.currentUser.id), once it is subscribed
ViewEvents(story, viewer) ==
    IF /\ sv.component = "UnifiedCommunityFeed"
       /\ sv.currentUser # NoUser
       /\ viewer = sv.currentUser
       /\ <<story, viewer>> \notin story_views
    THEN Append(sv_events, story)
    ELSE sv_events

FreeClick(c) ==
    /\ hs[c].pc = "idle"
    /\ \A d \in 1..(c - 1) : hs[d].pc # "idle"

\* handleStoryClick(story) up to its await: the feed strip shows stories only
\* once currentUser is set
HandleStoryClick ==
    \E story \in Stories :
        /\ sv.component # "none"
        /\ sv.component = "UnifiedCommunityFeed" => sv.currentUser # NoUser
        /\ IF ShouldTrackView(story, sv.currentUser, sv.viewedStories)
           THEN \E c \in ClickIds :
                   /\ FreeClick(c)
                   /\ rpc_calls[sv.user][story] < MaxStoryCalls
                   /\ increment_story_views(story, ViewerUuid(sv.currentUser))
                   /\ rpc_calls' = [rpc_calls EXCEPT ![sv.user][story] = @ + 1]
                   /\ sv_events' = ViewEvents(story, ViewerUuid(sv.currentUser))
                   /\ hs' = [hs EXCEPT ![c] =
                               [pc |-> "called", component |-> sv.component, story |-> story,
                                currentUser |-> sv.currentUser,
                                viewedStories |-> sv.viewedStories,
                                error |-> rpc_result'.status = "error", live |-> TRUE]]
                   /\ sv' = [sv EXCEPT !.selectedStory = story]
           ELSE /\ sv.selectedStory # story
                /\ sv' = [sv EXCEPT !.selectedStory = story]
                /\ UNCHANGED <<hs, sv_events, rpc_calls>>
                /\ UNCHANGED storyVars
        /\ UNCHANGED local_storage
        /\ UNCHANGED notClicks

\* new Set(viewedStories).add(story.id), of the call's own render
NewViewedStories(c) == hs[c].viewedStories \cup {hs[c].story}

\* StoriesContainer.handleStoryClick after the await
ScStoryViewed ==
    \E c \in ClickIds :
        /\ hs[c].pc = "called"
        /\ hs[c].component = "StoriesContainer"
        /\ IF hs[c].error
           THEN UNCHANGED <<sv, local_storage>>
           ELSE /\ sv' = IF hs[c].live
                         THEN [sv EXCEPT !.viewedStories = NewViewedStories(c)]
                         ELSE sv
                /\ local_storage' = IF hs[c].currentUser # NoUser
                                    THEN [local_storage EXCEPT ![hs[c].currentUser] = NewViewedStories(c)]
                                    ELSE local_storage
        /\ hs' = [hs EXCEPT ![c] = HsIdle]
        /\ UNCHANGED <<sv_events, rpc_calls>>
        /\ UNCHANGED storyVars
        /\ UNCHANGED notClicks

\* UnifiedCommunityFeed.handleStoryClick after the await: markStoryAsViewed
\* with its upsert into story_views
FeedStripStoryViewed ==
    \E c \in ClickIds :
        /\ hs[c].pc = "called"
        /\ hs[c].component = "UnifiedCommunityFeed"
        /\ IF hs[c].error
           THEN UNCHANGED <<sv, local_storage, story_views, sv_events>>
           ELSE /\ sv' = IF hs[c].live
                         THEN [sv EXCEPT !.viewedStories = NewViewedStories(c)]
                         ELSE sv
                /\ local_storage' = [local_storage EXCEPT ![hs[c].currentUser] = NewViewedStories(c)]
                /\ story_views' = InsertStoryView(story_views, hs[c].story, hs[c].currentUser)
                /\ sv_events' = ViewEvents(hs[c].story, hs[c].currentUser)
        /\ hs' = [hs EXCEPT ![c] = HsIdle]
        /\ UNCHANGED <<views_count, anon_calls, rpc_result, rpc_calls>>
        /\ UNCHANGED notClicks

\* the viewsChannel handler: setViewedStories(prev => prev + storyId), saved
\* to localStorage
FeedStripViewEvent ==
    /\ sv_events # <<>>
    /\ sv.component = "UnifiedCommunityFeed"
    /\ sv.currentUser # NoUser
    /\ LET newViewed == sv.viewedStories \cup {Head(sv_events)}
       IN /\ sv' = [sv EXCEPT !.viewedStories = newViewed]
          /\ local_storage' = [local_storage EXCEPT ![sv.currentUser] = newViewed]
    /\ sv_events' = Tail(sv_events)
    /\ UNCHANGED <<hs, rpc_calls>>
    /\ UNCHANGED storyVars
    /\ UNCHANGED notClicks

ClicksNext ==
    \/ SvMount
    \/ SvUnmount
    \/ ScGetCurrentUser
    \/ FeedStripGetCurrentUser
    \/ HandleStoryClick
    \/ ScStoryViewed
    \/ FeedStripStoryViewed
    \/ FeedStripViewEvent

\* C16: handleStoryClick never calls increment_story_views for the current
\* user's own story, and calls it at most once per story for a given viewer:
\* a further click on the story, made before or after the first call has
\* returned, issues no further call.
C16_ViewCalledAtMostOnce ==
    \A u \in Users, s \in Stories :
        /\ StoryOwner[s] = u => rpc_calls[u][s] = 0
        /\ rpc_calls[u][s] <= 1

(***************************************************************************)
(* Notifications for messages, friend requests, likes and comments.  No    *)
(* trigger of the migrations writes them: the realtime handlers of         *)
(* useEnhancedNotifications call createNotification in the recipient's     *)
(* browser.  The instances below are the recipient's: one per browser      *)
(* session, or several in one page (FirebaseNotificationProvider calls the *)
(* hook as well as the components that show notifications).                *)
(***************************************************************************)
MaxSessions == 2
MaxSessSetups == 2
MaxEvents == 1

SessionIds == 1..MaxSessions
Recipient == "u1"
EventKinds == {"message", "friend_request", "like", "comment"}

\* the channel whose handler notifies of a row of this kind
TopicOf(kind) ==
    CASE kind = "message" -> "messages"
      [] kind = "friend_request" -> "friends"
      [] kind = "like" -> "likes"
      [] kind = "comment" -> "comments"

\* the channels one setupRealtimeSubscriptions() subscribes for currentUser
SessChannels(gen, user) == [topic : NotifTopics, gen : {gen}, user : {user}]

SessUnmounted ==
    [mounted |-> FALSE, currentUser |-> NoUser, isOnline |-> TRUE, timer |-> FALSE,
     cleanup |-> "none", setups |-> 0, channelsRef |-> {}, channels |-> {}]

SessInit ==
    /\ ns = [i \in SessionIds |-> SessUnmounted]
    /\ source_rows = {}
    /\ deliveries = {}

\* the instance mounts: useState(navigator.onLine), useRef([]); the channels
\* an earlier mount left subscribed stay with the Supabase client
SessMount ==
    \E i \in SessionIds, online \in BOOLEAN :
        /\ ~ns[i].mounted
        /\ ns' = [ns EXCEPT ![i] = [SessUnmounted EXCEPT !.mounted = TRUE, !.isOnline = online,
                                                         !.setups = ns[i].setups,
                                                         !.channels = ns[i].channels]]
        /\ UNCHANGED <<source_rows, deliveries, db_notifications>>
        /\ UNCHANGED notSess

\* one run of the effect with a user: setupRealtimeSubscriptions(), and when
\* isOnline the reconnect timer
SessRunEffect(i, online, channels, ref) ==
    [ns[i] EXCEPT !.currentUser = Recipient,
                  !.isOnline = online,
                  !.timer = online,
                  !.cleanup = CleanupOf(TRUE, online),
                  !.setups = @ + 1,
                  !.channels = (channels \ ref) \cup SessChannels(ns[i].setups + 1, Recipient),
                  !.channelsRef = SessChannels(ns[i].setups + 1, Recipient)]

SessSetCurrentUser ==
    \E i \in SessionIds :
        /\ ns[i].mounted
        /\ ns[i].currentUser = NoUser
        /\ ns[i].setups < MaxSessSetups
        /\ ns' = [ns EXCEPT ![i] = SessRunEffect(i, ns[i].isOnline, ns[i].channels, ns[i].channelsRef)]
        /\ UNCHANGED <<source_rows, deliveries, db_notifications>>
        /\ UNCHANGED notSess

SessOnlineChange ==
    \E i \in SessionIds, online \in BOOLEAN :
        /\ ns[i].mounted
        /\ ns[i].setups < MaxSessSetups
        /\ online # ns[i].isOnline
        /\ ns' = [ns EXCEPT ![i] =
                    IF ns[i].currentUser # NoUser
                    THEN SessRunEffect(i, online,
                             ChannelsAfterCleanup(ns[i].cleanup, ns[i].channels, ns[i].channelsRef),
                             RefAfterCleanup(ns[i].cleanup, ns[i].channelsRef))
                    ELSE [ns[i] EXCEPT !.isOnline = online]]
        /\ UNCHANGED <<source_rows, deliveries, db_notifications>>
        /\ UNCHANGED notSess

\* the reconnect timer fires after 1 second: setupRealtimeSubscriptions()
\* again, which first removes the channels of the first run
SessReconnectTimer ==
    \E i \in SessionIds :
        /\ ns[i].timer
        /\ ns[i].setups < MaxSessSetups
        /\ ns' = [ns EXCEPT ![i] =
                    [ns[i] EXCEPT !.timer = FALSE,
                                  !.setups = @ + 1,
                                  !.channels = (ns[i].channels \ ns[i].channelsRef)
                                                  \cup SessChannels(ns[i].setups + 1, Recipient),
                                  !.channelsRef = SessChannels(ns[i].setups + 1, Recipient)]]
        /\ UNCHANGED <<source_rows, deliveries, db_notifications>>
        /\ UNCHANGED notSess

\* the instance unmounts: the cleanup of the last effect run
SessUnmount ==
    \E i \in SessionIds :
        /\ ns[i].mounted
        /\ ns' = [ns EXCEPT ![i] =
                    [ns[i] EXCEPT !.mounted = FALSE,
                                  !.currentUser = NoUser,
                                  !.cleanup = "none",
                                  !.timer = IF ns[i].cleanup = "timer" THEN FALSE ELSE @,
                                  !.channels = ChannelsAfterCleanup(ns[i].cleanup, @, ns[i].channelsRef),
                                  !.channelsRef = RefAfterCleanup(ns[i].cleanup, @)]]
        /\ UNCHANGED <<source_rows, deliveries, db_notifications>>
        /\ UNCHANGED notSess

\* the subscribed channels an inserted row is sent to: messages and friends
\* filter on receiver_id=eq.currentUser.id, likes and comments have no filter
Receives(channel, kind, to) ==
    /\ channel.topic = TopicOf(kind)
    /\ kind \in {"message", "friend_request"} => channel.user = to

Subscribers(kind, to) ==
    {x \in [session : SessionIds, channel : UNION {ns[j].channels : j \in SessionIds}] :
        /\ x.channel \in ns[x.session].channels
        /\ Receives(x.channel, kind, to)}

\* another user sends a message or a friend request to the user `to`, or
\* likes or comments on a post of `to`: the row is inserted and each
\* subscribed handler for it starts
InsertSourceRow ==
    \E kind \in EventKinds, to \in Users, from \in Users :
        /\ from # to
        /\ Cardinality(source_rows) < MaxEvents
        /\ LET id == Cardinality(source_rows) + 1
               subs == Subscribers(kind, to)
           IN /\ source_rows' = source_rows \cup
                     {[id |-> id, kind |-> kind, to |-> to, from |-> from,
                       arrived |-> Cardinality({x \in subs : x.channel.user = to})]}
              /\ deliveries' = deliveries \cup
                     {[event |-> id, session |-> x.session, channel |-> x.channel] : x \in subs}
        /\ UNCHANGED <<ns, db_notifications>>
        /\ UNCHANGED notSess

SourceRow(id) == CHOOSE e \in source_rows : e.id = id

\* the handlers' test before createNotification: the likes and comments
\* handlers notify only of another user's like or comment on currentUser's post
Notifies(e, currentUser) ==
    e.kind \in {"like", "comment"} => (e.to = currentUser /\ e.from # currentUser)

\* createNotification(userId, type, content, referenceId): one insert into
\* notifications; referenceId is message.id, friendship.id or the post_id
createNotification(rows, userId, type, referenceId) ==
    rows \cup {NotificationRow(rows, userId, type, referenceId)}

\* a realtime handler runs to its end
SessHandleInsert ==
    \E d \in deliveries :
        /\ LET e == SourceRow(d.event)
           IN db_notifications' =
                 IF Notifies(e, d.channel.user)
                 THEN createNotification(db_notifications, d.channel.user, e.kind, e.id)
                 ELSE db_notifications
        /\ deliveries' = deliveries \ {d}
        /\ UNCHANGED <<ns, source_rows>>
        /\ UNCHANGED notSess

SessNext ==
    \/ SessMount
    \/ SessSetCurrentUser
    \/ SessOnlineChange
    \/ SessReconnectTimer
    \/ SessUnmount
    \/ InsertSourceRow
    \/ SessHandleInsert

NotificationsFor(e) ==
    {r \in db_notifications : r.user_id = e.to /\ r.type = e.kind /\ r.reference_id = e.id}

\* C17: each direct message, friend request, like or comment addressed to a
\* user results in exactly one notifications row for that user, however many
\* useEnhancedNotifications instances or browser sessions of the user are
\* subscribed when it arrives (at least one), once their handlers have run.
C17_ExactlyOneNotification ==
    \A e \in source_rows :
        (e.arrived > 0 /\ \A d \in deliveries : d.event # e.id)
            => Cardinality(NotificationsFor(e)) = 1

(***************************************************************************)
(* Specifications                                                          *)
(***************************************************************************)
CombineIdle ==
    /\ cs_firebasePosts = <<>>
    /\ cs_supabasePosts = <<>>
    /\ cs_result = [done |-> FALSE, posts |-> <<>>]

PostsIdle ==
    /\ fs_posts = {}
    /\ sb_posts = {}
    /\ fb_storage = {}
    /\ sb_storage = {}
    /\ next_call = 1
    /\ has_comments_column = TRUE
    /\ SvcInit
    /\ DashInit

InitStories == StoryInit /\ CombineIdle /\ PostsIdle /\ FeedInit /\ NotifInit /\ GroupsInit /\ GroupDbInit /\ PageInit /\ RlsInit /\ MsgInit /\ LikesInit /\ ClicksInit /\ SessInit
SpecStories == InitStories /\ [][StoryNext]_vars

InitCombine == CombineInit /\ StoryInit /\ PostsIdle /\ FeedInit /\ NotifInit /\ GroupsInit /\ GroupDbInit /\ PageInit /\ RlsInit /\ MsgInit /\ LikesInit /\ ClicksInit /\ SessInit
SpecCombine == InitCombine /\ [][CombineNext]_vars

InitPosts == BackendInit /\ SvcInit /\ DashInit /\ StoryInit /\ CombineIdle /\ FeedInit
               /\ NotifInit /\ GroupsInit /\ GroupDbInit /\ PageInit /\ RlsInit /\ MsgInit /\ LikesInit /\ ClicksInit /\ SessInit

InitFeed == PostsIdle /\ FeedInit /\ StoryInit /\ CombineIdle /\ NotifInit /\ GroupsInit /\ GroupDbInit /\ PageInit /\ RlsInit /\ MsgInit /\ LikesInit /\ ClicksInit /\ SessInit

InitListeners == PostsIdle /\ FeedInit /\ StoryInit /\ CombineIdle /\ NotifInit /\ GroupsInit /\ GroupDbInit /\ PageInit /\ RlsInit /\ MsgInit /\ LikesInit /\ ClicksInit /\ SessInit
SpecListeners == InitListeners /\ [][ListenersNext]_vars

InitGroups == PostsIdle /\ FeedInit /\ StoryInit /\ CombineIdle /\ NotifInit /\ GroupsInit /\ GroupDbInit /\ PageInit /\ RlsInit /\ MsgInit /\ LikesInit /\ ClicksInit /\ SessInit
SpecGroups == InitGroups /\ [][GroupsNext]_vars

InitPage == PostsIdle /\ FeedInit /\ StoryInit /\ CombineIdle /\ NotifInit /\ GroupsInit /\ GroupDbInit /\ PageInit /\ RlsInit /\ MsgInit /\ LikesInit /\ ClicksInit /\ SessInit
SpecPage == InitPage /\ [][PageNext]_vars

InitRls == PostsIdle /\ FeedInit /\ StoryInit /\ CombineIdle /\ NotifInit /\ GroupsInit /\ GroupDbInit /\ PageInit /\ RlsInit /\ MsgInit /\ LikesInit /\ ClicksInit /\ SessInit
SpecRls == InitRls /\ [][RlsNext]_vars

InitMembers == PostsIdle /\ FeedInit /\ StoryInit /\ CombineIdle /\ NotifInit /\ GroupsInit /\ GroupDbInit /\ PageInit /\ RlsInit /\ MsgInit /\ LikesInit /\ ClicksInit /\ SessInit
SpecMembers == InitMembers /\ [][MembersNext]_vars

InitMessages == PostsIdle /\ FeedInit /\ StoryInit /\ CombineIdle /\ NotifInit /\ GroupsInit /\ GroupDbInit /\ PageInit /\ RlsInit /\ MsgInit /\ LikesInit /\ ClicksInit /\ SessInit
SpecMessages == InitMessages /\ [][MessagesNext]_vars
SpecFeed == InitFeed /\ [][FeedNext]_vars
SpecPosts == InitPosts /\ [][PostsNext]_vars

InitLikes == PostsIdle /\ FeedInit /\ StoryInit /\ CombineIdle /\ NotifInit /\ GroupsInit /\ GroupDbInit /\ PageInit /\ RlsInit /\ MsgInit /\ LikesInit /\ ClicksInit /\ SessInit
SpecLikes == InitLikes /\ [][LikesNext]_vars

InitClicks == PostsIdle /\ FeedInit /\ StoryInit /\ CombineIdle /\ NotifInit /\ GroupsInit /\ GroupDbInit /\ PageInit /\ RlsInit /\ MsgInit /\ LikesInit /\ ClicksInit /\ SessInit
SpecClicks == InitClicks /\ [][ClicksNext]_vars

InitSess == PostsIdle /\ FeedInit /\ StoryInit /\ CombineIdle /\ NotifInit /\ GroupsInit /\ GroupDbInit /\ PageInit /\ RlsInit /\ MsgInit /\ LikesInit /\ ClicksInit /\ SessInit
SpecSess == InitSess /\ [][SessNext]_vars

====
